---- MODULE Spec2Model ----
(***************************************************************************)
(* A model of the teleporter relay engine (duo/teleporter).                *)
(*                                                                         *)
(*   Part I   the OneBot server: echo counter, API dispatcher, pending      *)
(*            table, per-connection reader and writer (onebot_pylon.rs)     *)
(*   Part II  the WebSocket handshake (onebot_pylon.rs accept_connection)   *)
(*   Part III the Telegram pylon: event pump, per-chat locks, the relay     *)
(*            handlers and the bridge's tables (telegram_pylon.rs,          *)
(*            from_onebot.rs, from_telegram.rs, bridge.rs, command.rs)      *)
(*   Part IV  the per-chat Telegram rate limiter (bridge.rs)                *)
(*   Part V   commands and inline-button callbacks (command.rs, bridge.rs)  *)
(*   Part VI  stalled connections and shutdown (onebot_pylon.rs, main.rs)   *)
(*   Part VII Bridge::get_remote_chat step by step (bridge.rs)              *)
(*   Part VIII the index writer (index_service.rs)                          *)
(*   Part IX  pure functions: typed API wrappers, Endpoint strings          *)
(*            (bridge.rs, response.rs, common.rs)                           *)
(*                                                                         *)
(* The database is taken to answer every statement; an insert fails only   *)
(* on a unique index.  Remote API calls and Telegram RPCs may fail.  The   *)
(* one insert that may fail otherwise is create_topic, which runs after    *)
(* Telegram has created the forum topic (get_or_create_topic).             *)
(***************************************************************************)
EXTENDS Integers, Sequences, FiniteSets, TLC

VARIABLES
    \* ---- Part I/II: OneBot server ----
    bearer,            \* OnebotPylon.bearer: Option<String>
    COUNTER,           \* static COUNTER: AtomicU64 of generate_echo
    calls,             \* every call_api invocation: request, oneshot waiter
    api_chan,          \* the system-wide API request channel (indices of calls)
    disp,              \* the dispatcher: 0 = at select!, k = inside the branch for call k
    endpoints_sender,  \* routing table: Endpoint -> connection owning the mpsc::Sender
    response_pending,  \* pending table: echo -> call whose oneshot::Sender is stored
    conns,             \* accepted connections: reader, writer channel, frames written and in flight
    event_chan,        \* events forwarded to the shared event channel
    frames_sent,       \* how many frames the remote adapters have sent so far
    last_hs,           \* the last handshake: request headers and HTTP status answered
    \* ---- Part III: Telegram pylon and bridge ----
    tasks,             \* spawned tasks, in the order their event or update was dequeued
    remote_id_lock,    \* RemoteIdLock: remote chat key -> queue of tasks (head holds the Mutex)
    tg_id_lock,        \* TgIdLock: Telegram chat id -> queue of tasks (head holds the Mutex)
    remote_chat,       \* table remote_chat: row i is the chat with id i
    remote_chat_cache, \* Bridge.remote_chat_cache: the keys cached
    message,           \* table message
    link,              \* table link
    archive,           \* table archive
    topic,             \* table topic
    tg_log,            \* every message the bot has sent on Telegram, in order
    tg_next,           \* the id Telegram gives to the next message
    remote_log,        \* every send_msg the remote side has answered ok, in order
    uuid_next,         \* stands for the next value of Uuid::new_v4()
    \* ---- Part IV: rate limiter ----
    now,               \* the limiter's clock, in replenish intervals
    limiter,           \* RateLimiter state: Telegram chat -> theoretical arrival time
    delivered,         \* Telegram chat -> tick -> messages delivered at that tick
    \* ---- Part V/VI: callbacks, the four loops, shutdown ----
    callback_cache,    \* Bridge.callback_cache: token -> CommandCallback
    loops,             \* listener, dispatcher, event pump, update loop: running or not
    shutdown,          \* the shutdown signal has been broadcast
    \* ---- Part VII: get_remote_chat ----
    grc,               \* the get_remote_chat calls in progress or returned
    entry_lock,        \* remote_chat_cache entries held: key -> the call holding it
    \* ---- Part VIII: index writer ----
    added_docs,        \* writer task: documents added since the last commit
    commit_timestamp,  \* writer task: the clock at the last commit
    clock,             \* seconds since the writer task started
    doc_chan,          \* documents waiting in the document channel
    commit_chan,       \* flush requests waiting in the commit channel
    writer,            \* the writer task: at its select!, in the flush branch, or terminated
    commit_calls,      \* IndexService::commit callers and how far each got
    index_log,         \* what the writer and the callers did, in order
    \* ---- Part IX: pure functions ----
    eval               \* a pure function under evaluation: its argument and its results

apiVars == <<bearer, COUNTER, calls, api_chan, disp, endpoints_sender,
             response_pending, conns, event_chan, frames_sent, last_hs>>

bridgeVars == <<tasks, remote_id_lock, tg_id_lock, remote_chat, remote_chat_cache,
                message, link, archive, topic, tg_log, tg_next, remote_log,
                uuid_next>>

rateVars == <<now, limiter, delivered>>

ctlVars == <<callback_cache, loops, shutdown>>

chatVars == <<grc, entry_lock>>

indexVars == <<added_docs, commit_timestamp, clock, doc_chan, commit_chan, writer,
               commit_calls, index_log>>

extVars == <<ctlVars, chatVars, indexVars, eval>>

vars == <<apiVars, bridgeVars, rateVars, extVars>>

(***************************************************************************)
(* Bounds                                                                  *)
(***************************************************************************)
MaxCalls == 2      \* call_api invocations
MaxConns == 2      \* accepted WebSocket connections
MaxFrames == 1     \* frames the remote adapters send, over all connections
ChanCap == 1       \* capacity of a writer channel in the model (BUFFER_SIZE scaled down)
ApiChanCap == 2    \* capacity of the API channel in the model (BUFFER_SIZE scaled down)

(***************************************************************************)
(* Values                                                                  *)
(***************************************************************************)
None == [some |-> FALSE, val |-> <<>>]
Some(v) == [some |-> TRUE, val |-> v]

\* A raw header of the handshake request: absent, present with bytes that are
\* not visible ASCII (HeaderValue::to_str fails), or present with text.
HAbsent == [kind |-> "absent", val |-> <<>>]
HOpaque == [kind |-> "opaque", val |-> <<>>]
HText(v) == [kind |-> "text", val |-> v]

\* req.headers().get(name).and_then(|h| h.to_str().ok())
HeaderStr(h) ==
    IF h.kind = "text" THEN Some(h.val) ELSE None

\* format!("Bearer {}", token), as the words of the string
BearerOf(token) ==
    IF token.some THEN Some(<<"Bearer", token.val>>) ELSE None

\* no pure function is under evaluation
NoEval == [fn |-> "none", arg |-> <<>>, out |-> <<>>]

Tokens == {None, Some("secret")}

AuthHeaders == {HAbsent, HOpaque, HText(<<"Bearer", "secret">>),
                HText(<<"Bearer", "wrong">>)}
SelfIdHeaders == {HAbsent, HOpaque, HText(<<"10001">>)}
UserAgents == {HAbsent, HOpaque, HText(<<"LLOneBot", "/4.1">>),
               HText(<<"WeChat", "/3.9">>), HText(<<"curl", "/8">>)}

Handshakes == [auth : AuthHeaders, self_id : SelfIdHeaders, ua : UserAgents]

\* ua.starts_with(prefix), a user agent being its product word and the rest
StartsWith(ua, prefix) ==
    Len(ua) >= 1 /\ ua[1] = prefix

PlatformOf(ua) ==
    IF StartsWith(ua, "LLOneBot") THEN "QQ"
    ELSE IF StartsWith(ua, "WeChat") THEN "WeChat"
    ELSE "QQ"

NoEndpoint == [platform |-> "Telegram", id |-> ""]

\* The callback handed to accept_hdr_async_with_config: the HTTP status it
\* answers and the endpoint it stores in endpoint_locked.
HandshakeCallback(req, b) ==
    LET auth_header == HeaderStr(req.auth)
        x_self_id == HeaderStr(req.self_id)
        user_agent == HeaderStr(req.ua)
    IN  IF auth_header # b
        THEN [status |-> 401, endpoint |-> NoEndpoint]
        ELSE IF ~x_self_id.some \/ ~user_agent.some
        THEN [status |-> 400, endpoint |-> NoEndpoint]
        ELSE [status |-> 101,
              endpoint |-> [platform |-> PlatformOf(user_agent.val),
                            id |-> x_self_id.val[1]]]

Endpoints == {[platform |-> p, id |-> i] : p \in {"QQ", "WeChat"}, i \in {"10001", "10002"}}

\* The request builders of impl Request
Actions == {"get_login_info", "get_friend_list", "get_group_list",
            "get_stranger_info", "get_group_info", "get_group_member_list",
            "get_group_member_info", "get_record", "get_image", "get_file",
            "delete_msg", "send_msg"}

ApiActions == {"send_msg"}

Echoes == {ToString(n) : n \in 1..MaxCalls}

Frames ==
    [kind : {"response"}, echo : Echoes, status : {"ok"}]
    \cup {[kind |-> "event", echo |-> "", status |-> ""],
          [kind |-> "other", echo |-> "", status |-> ""]}

NoRes == [kind |-> "none", echo |-> "", status |-> "", conn |-> 0]

\* AtomicU64::fetch_add: one atomic read-modify-write returning the old value
fetch_add_lost(counter, val) ==
    [old |-> counter, new |-> counter]

fetch_add(counter, val) ==
    [old |-> counter, new |-> counter + val]

\* Function helpers for the two HashMaps
MapPut(f, k, v) ==
    [x \in DOMAIN f \cup {k} |-> IF x = k THEN v ELSE f[x]]

MapDel(f, k) ==
    [x \in DOMAIN f \ {k} |-> f[x]]

EmptyMap == [x \in {} |-> 0]

(***************************************************************************)
(* Init                                                                    *)
(***************************************************************************)
InitApiVars ==
    /\ COUNTER = 1
    /\ calls = <<>>
    /\ api_chan = <<>>
    /\ disp = 0
    /\ endpoints_sender = EmptyMap
    /\ response_pending = EmptyMap
    /\ conns = <<>>
    /\ event_chan = <<>>
    /\ frames_sent = 0
    /\ last_hs = [req |-> [auth |-> HAbsent, self_id |-> HAbsent, ua |-> HAbsent],
                  status |-> 0]

InitBridgeVars ==
    /\ tasks = <<>>
    /\ remote_id_lock = EmptyMap
    /\ tg_id_lock = EmptyMap
    /\ remote_chat = <<>>
    /\ remote_chat_cache = {}
    /\ message = {}
    /\ link = {}
    /\ archive = {}
    /\ topic = {}
    /\ tg_log = <<>>
    /\ tg_next = 1
    /\ remote_log = <<>>
    /\ uuid_next = 1

InitRateVars ==
    /\ now = 0
    /\ limiter = EmptyMap
    /\ delivered = EmptyMap

InitExtVars ==
    /\ callback_cache = EmptyMap
    /\ loops = [listener |-> "running", dispatcher |-> "running",
                pump |-> "running", updates |-> "running"]
    /\ shutdown = FALSE
    /\ grc = <<>>
    /\ entry_lock = EmptyMap
    /\ added_docs = 0
    /\ commit_timestamp = 0
    /\ clock = 0
    /\ doc_chan = 0
    /\ commit_chan = <<>>
    /\ writer = [pc |-> "select", step |-> 0, sender |-> 0]
    /\ commit_calls = <<>>
    /\ index_log = <<>>

(***************************************************************************)
(* Part I: request construction and call_api                               *)
(***************************************************************************)
\* Request::<action>(..): generate_echo().to_string() becomes the echo
BuildRequest(ep, act) ==
    /\ Len(calls) < MaxCalls
    /\ LET r == fetch_add(COUNTER, 1)
       IN  /\ COUNTER' = r.new
           /\ calls' = Append(calls, [endpoint |-> ep, action |-> act,
                                      echo |-> ToString(r.old),
                                      st |-> "built", res |-> NoRes])
    /\ UNCHANGED <<bearer, api_chan, disp, endpoints_sender, response_pending,
                   conns, event_chan, frames_sent, last_hs>>
    /\ UNCHANGED <<bridgeVars, rateVars, extVars>>

\* call_api: the oneshot is created and api_sender.send(req).await puts the
\* OnebotRequest on the API channel, waiting while the channel is full; then
\* the caller waits on rx under the timeout.  Once the dispatcher has dropped
\* the receiver the send fails and the call returns that error
CallApi(k) ==
    /\ calls[k].st = "built"
    /\ IF loops.dispatcher = "exited"
       THEN /\ calls' = [calls EXCEPT ![k].st = "err",
                                       ![k].res = [kind |-> "api_closed", echo |-> "",
                                                   status |-> "", conn |-> 0]]
            /\ UNCHANGED api_chan
       ELSE /\ Len(api_chan) < ApiChanCap
            /\ calls' = [calls EXCEPT ![k].st = "waiting"]
            /\ api_chan' = Append(api_chan, k)
    /\ UNCHANGED <<bearer, COUNTER, disp, endpoints_sender, response_pending,
                   conns, event_chan, frames_sent, last_hs>>
    /\ UNCHANGED <<bridgeVars, rateVars, extVars>>

\* tokio::time::timeout(API_TIMOUT, rx) elapses: the waiter resolves with the
\* timeout error and rx is dropped; the pending entry, if any, stays
CallTimeout(k) ==
    /\ calls[k].st = "waiting"
    /\ calls' = [calls EXCEPT ![k].st = "timeout"]
    /\ UNCHANGED <<bearer, COUNTER, api_chan, disp, endpoints_sender,
                   response_pending, conns, event_chan, frames_sent, last_hs>>
    /\ UNCHANGED <<bridgeVars, rateVars, extVars>>

\* oneshot::Sender::send: reaches the waiter only while its rx is alive
Resolve_dropped(cs, k, st, res) == cs

Resolve(cs, k, st, res) ==
    IF cs[k].st = "waiting"
    THEN [cs EXCEPT ![k].st = st, ![k].res = res]
    ELSE cs

\* mpsc::Sender::send on the writer channel of connection c
SendResult(c) ==
    IF ~conns[c].wopen THEN "closed"
    ELSE IF Len(conns[c].wq) >= conns[c].cap THEN "full"
    ELSE "ok"

\* HashMap::insert of the pending table: a sender already stored under the
\* echo is dropped, which closes its waiter
PendingInsert(cs, echo, k) ==
    IF echo \in DOMAIN response_pending /\ response_pending[echo] # k
    THEN Resolve(cs, response_pending[echo], "err",
                 [kind |-> "closed", echo |-> "", status |-> "", conn |-> 0])
    ELSE cs

\* The branch taken when the endpoint has a sender: the pending table is
\* written, then the request is handed to the writer channel
DispatchOrder_send_first == <<"send", "insert">>

DispatchOrder == <<"insert", "send">>

\* One operation of that branch for call k.  A send on a full channel stays
\* pending; a failed send takes the entry out again and answers the waiter:
\* pending.remove(echo).unwrap().send(Err(e))
DispatchOp(op, k) ==
    LET c == endpoints_sender[calls[k].endpoint]
        echo == calls[k].echo
    IN  CASE op = "insert" ->
               /\ response_pending' = MapPut(response_pending, echo, k)
               /\ calls' = PendingInsert(calls, echo, k)
               /\ UNCHANGED <<conns, loops>>
          [] op = "send" /\ SendResult(c) = "ok" ->
               /\ conns' = [conns EXCEPT ![c].wq = Append(@, echo)]
               /\ UNCHANGED <<response_pending, calls, loops>>
          [] op = "send" /\ SendResult(c) = "closed" ->
               IF echo \in DOMAIN response_pending
               THEN /\ response_pending' = MapDel(response_pending, echo)
                    /\ calls' = Resolve(calls, response_pending[echo], "err",
                                        [kind |-> "send_failed", echo |-> "",
                                         status |-> "", conn |-> 0])
                    /\ UNCHANGED <<conns, loops>>
               ELSE /\ loops' = [loops EXCEPT !.dispatcher = "panicked"]
                    /\ UNCHANGED <<response_pending, calls, conns>>
          [] OTHER -> FALSE

\* One iteration of the dispatcher loop up to the second operation of the
\* branch; the routing table stays locked until the branch is left
DispatchRecv ==
    /\ loops.dispatcher = "running"
    /\ disp = 0
    /\ api_chan # <<>>
    /\ LET k == Head(api_chan)
       IN  /\ api_chan' = Tail(api_chan)
           /\ IF calls[k].endpoint \notin DOMAIN endpoints_sender
              THEN /\ calls' = Resolve(calls, k, "err",
                                       [kind |-> "not_found", echo |-> "",
                                        status |-> "", conn |-> 0])
                   /\ UNCHANGED <<disp, response_pending, conns, loops>>
              ELSE /\ DispatchOp(DispatchOrder[1], k)
                   /\ disp' = k
    /\ UNCHANGED <<bearer, COUNTER, endpoints_sender, event_chan, frames_sent,
                   last_hs>>
    /\ UNCHANGED <<bridgeVars, rateVars, callback_cache, shutdown, chatVars,
                   indexVars, eval>>

\* The second operation; a blocked sender.send completes once the writer
\* channel has room
DispatchResume ==
    /\ disp # 0
    /\ DispatchOp(DispatchOrder[2], disp)
    /\ disp' = 0
    /\ UNCHANGED <<bearer, COUNTER, api_chan, endpoints_sender, event_chan,
                   frames_sent, last_hs>>
    /\ UNCHANGED <<bridgeVars, rateVars, callback_cache, shutdown, chatVars,
                   indexVars, eval>>

(***************************************************************************)
(* Part II: accept_connection                                              *)
(***************************************************************************)
\* The handshake: the callback decides the status; on 101 the task goes on
\* to register the connection, otherwise expect() ends the task
AcceptConnection(req, cap) ==
    /\ loops.listener = "running"
    /\ LET r == HandshakeCallback(req, bearer)
       IN  /\ last_hs' = [req |-> req, status |-> r.status]
           /\ IF r.status = 101
              THEN /\ Len(conns) < MaxConns
                   /\ conns' = Append(conns, [endpoint |-> r.endpoint,
                                              reader |-> "registering",
                                              wopen |-> TRUE, wq |-> <<>>,
                                              cap |-> cap, sent |-> <<>>,
                                              inbox |-> <<>>])
              ELSE UNCHANGED conns
    /\ UNCHANGED <<bearer, COUNTER, calls, api_chan, disp, endpoints_sender,
                   response_pending, event_chan, frames_sent>>
    /\ UNCHANGED <<bridgeVars, rateVars, extVars>>

\* the writer channel is mpsc::channel(BUFFER_SIZE), scaled down to ChanCap
Accept(req) == AcceptConnection(req, ChanCap)

\* endpoints_sender.lock().await.insert(endpoint, sender), then the writer and
\* the reader are spawned.  The lock is held by a dispatcher blocked in send.
Register(c) ==
    /\ conns[c].reader = "registering"
    /\ disp = 0
    /\ endpoints_sender' = MapPut(endpoints_sender, conns[c].endpoint, c)
    /\ conns' = [conns EXCEPT ![c].reader = "running"]
    /\ UNCHANGED <<bearer, COUNTER, calls, api_chan, disp, response_pending,
                   event_chan, frames_sent, last_hs>>
    /\ UNCHANGED <<bridgeVars, rateVars, extVars>>

\* a receiver that hands out the request queued last
recv_newest(q) == [item |-> q[Len(q)], rest |-> SubSeq(q, 1, Len(q) - 1)]

\* mpsc::Receiver::recv: the request queued first
recv(q) == [item |-> Head(q), rest |-> Tail(q)]

\* Writer task: receiver.recv() then handle_request writes the frame
WriterStep(c) ==
    /\ conns[c].wq # <<>>
    /\ conns' = [conns EXCEPT ![c].wq = recv(@).rest,
                              ![c].sent = Append(@, recv(conns[c].wq).item)]
    /\ UNCHANGED <<bearer, COUNTER, calls, api_chan, disp, endpoints_sender,
                   response_pending, event_chan, frames_sent, last_hs>>
    /\ UNCHANGED <<bridgeVars, rateVars, extVars>>

\* receiver.recv() returns None once every Sender is dropped: the only Sender
\* lives in the routing table
WriterExit(c) ==
    /\ conns[c].wopen
    /\ conns[c].reader # "registering"
    /\ conns[c].wq = <<>>
    /\ \A ep \in DOMAIN endpoints_sender : endpoints_sender[ep] # c
    /\ conns' = [conns EXCEPT ![c].wopen = FALSE]
    /\ UNCHANGED <<bearer, COUNTER, calls, api_chan, disp, endpoints_sender,
                   response_pending, event_chan, frames_sent, last_hs>>
    /\ UNCHANGED <<bridgeVars, rateVars, extVars>>

\* The remote adapter puts a frame on the socket
RemoteSend(c, f) ==
    /\ conns[c].reader = "running"
    /\ frames_sent < MaxFrames
    /\ frames_sent' = frames_sent + 1
    /\ conns' = [conns EXCEPT ![c].inbox = Append(@, f)]
    /\ UNCHANGED <<bearer, COUNTER, calls, api_chan, disp, endpoints_sender,
                   response_pending, event_chan, last_hs>>
    /\ UNCHANGED <<bridgeVars, rateVars, extVars>>

\* handle_message, Payload::Response: pending.lock().await.remove(&echo), then
\* p.send(Ok(response)) on the sender that was stored
HandleResponseNoRemove(c, f) ==
    /\ response_pending' = response_pending
    /\ calls' = IF f.echo \in DOMAIN response_pending
                THEN Resolve(calls, response_pending[f.echo], "ok",
                             [kind |-> "response", echo |-> f.echo,
                              status |-> f.status, conn |-> c])
                ELSE calls

HandleResponse(c, f) ==
    IF f.echo \in DOMAIN response_pending
    THEN /\ response_pending' = MapDel(response_pending, f.echo)
         /\ calls' = Resolve(calls, response_pending[f.echo], "ok",
                             [kind |-> "response", echo |-> f.echo,
                              status |-> f.status, conn |-> c])
    ELSE UNCHANGED <<response_pending, calls>>

\* Reader task, Ok(message): handle_message on the next frame
ReaderStep(c) ==
    /\ conns[c].reader = "running"
    /\ conns[c].inbox # <<>>
    /\ LET f == Head(conns[c].inbox)
       IN  /\ conns' = [conns EXCEPT ![c].inbox = Tail(@)]
           /\ CASE f.kind = "response" ->
                     /\ HandleResponse(c, f)
                     /\ UNCHANGED event_chan
                [] f.kind = "event" ->
                     /\ event_chan' = Append(event_chan,
                                             [endpoint |-> conns[c].endpoint,
                                              kind |-> "event"])
                     /\ UNCHANGED <<response_pending, calls>>
                [] OTHER ->
                     UNCHANGED <<response_pending, calls, event_chan>>
    /\ UNCHANGED <<bearer, COUNTER, api_chan, disp, endpoints_sender,
                   frames_sent, last_hs>>
    /\ UNCHANGED <<bridgeVars, rateVars, extVars>>

\* Reader task, Err(e): the disconnect event is sent first
ReadError(c) ==
    /\ conns[c].reader = "running"
    /\ event_chan' = Append(event_chan, [endpoint |-> conns[c].endpoint,
                                         kind |-> "disconnect"])
    /\ conns' = [conns EXCEPT ![c].reader = "closing", ![c].inbox = <<>>]
    /\ UNCHANGED <<bearer, COUNTER, calls, api_chan, disp, endpoints_sender,
                   response_pending, frames_sent, last_hs>>
    /\ UNCHANGED <<bridgeVars, rateVars, extVars>>

\* ... then endpoints_sender.lock().await.remove(&endpoint) and break
ReaderTeardown(c) ==
    /\ conns[c].reader = "closing"
    /\ disp = 0
    /\ endpoints_sender' = MapDel(endpoints_sender, conns[c].endpoint)
    /\ conns' = [conns EXCEPT ![c].reader = "closed"]
    /\ UNCHANGED <<bearer, COUNTER, calls, api_chan, disp, response_pending,
                   event_chan, frames_sent, last_hs>>
    /\ UNCHANGED <<bridgeVars, rateVars, extVars>>

\* read.next() returns None (the stream ended): the while-let loop is left
ReaderEof(c) ==
    /\ conns[c].reader = "running"
    /\ conns' = [conns EXCEPT ![c].reader = "closed", ![c].inbox = <<>>]
    /\ UNCHANGED <<bearer, COUNTER, calls, api_chan, disp, endpoints_sender,
                   response_pending, event_chan, frames_sent, last_hs>>
    /\ UNCHANGED <<bridgeVars, rateVars, extVars>>

(***************************************************************************)
(* Specifications of the OneBot server                                     *)
(***************************************************************************)
ApiToken == Some("secret")

ApiEndpoints == {[platform |-> "QQ", id |-> i] : i \in {"10001", "10002"}}

ApiHandshakes ==
    [auth : {HText(<<"Bearer", "secret">>)},
     self_id : {HText(<<"10001">>), HText(<<"10002">>)},
     ua : {HText(<<"LLOneBot", "/4.1">>)}]

InitApi ==
    /\ bearer = BearerOf(ApiToken)
    /\ InitApiVars
    /\ InitBridgeVars
    /\ InitRateVars
    /\ InitExtVars
    /\ eval = NoEval

NextApi ==
    \/ \E ep \in ApiEndpoints, act \in ApiActions : BuildRequest(ep, act)
    \/ \E k \in 1..Len(calls) : CallApi(k)
    \/ \E k \in 1..Len(calls) : CallTimeout(k)
    \/ DispatchRecv
    \/ DispatchResume
    \/ \E req \in ApiHandshakes : Accept(req)
    \/ \E c \in 1..Len(conns) : Register(c)
    \/ \E c \in 1..Len(conns) : WriterStep(c)
    \/ \E c \in 1..Len(conns), f \in Frames : RemoteSend(c, f)
    \/ \E c \in 1..Len(conns) : ReaderStep(c)

SpecApi == InitApi /\ [][NextApi]_vars

\* Request construction on its own: any of the request builders, from any
\* task, interleaved with the calls that hand the requests to call_api
NextEcho ==
    \/ \E ep \in ApiEndpoints, act \in Actions : BuildRequest(ep, act)
    \/ \E k \in 1..Len(calls) : CallApi(k)
    \/ \E k \in 1..Len(calls) : CallTimeout(k)

SpecEcho == InitApi /\ [][NextEcho]_vars

InitAccept ==
    /\ bearer \in {BearerOf(t) : t \in Tokens}
    /\ InitApiVars
    /\ InitBridgeVars
    /\ InitRateVars
    /\ InitExtVars
    /\ eval = NoEval

NextAccept ==
    \/ \E req \in Handshakes : Accept(req)
    \/ \E c \in 1..Len(conns) : Register(c)
    \/ \E c \in 1..Len(conns) : WriterExit(c)
    \/ \E c \in 1..Len(conns) : ReadError(c)
    \/ \E c \in 1..Len(conns) : ReaderTeardown(c)
    \/ \E c \in 1..Len(conns) : ReaderEof(c)

SpecAccept == InitAccept /\ [][NextAccept]_vars

(***************************************************************************)
(* Claims about the OneBot server                                          *)
(***************************************************************************)
\* The step in which the reader of connection c takes a Response frame
ReaderTookResponse(c) ==
    /\ conns[c].reader = "running"
    /\ conns'[c].reader = "running"
    /\ conns[c].inbox # <<>>
    /\ conns'[c].inbox = Tail(conns[c].inbox)
    /\ Head(conns[c].inbox).kind = "response"

Delivered(k, f, c) ==
    [calls[k] EXCEPT !.st = "ok",
                     !.res = [kind |-> "response", echo |-> f.echo,
                              status |-> f.status, conn |-> c]]

\* C2 (as claimed): a decoded Response whose echo is in the pending table is
\* delivered to exactly the waiter registered under that echo and the entry is
\* removed in the same step; a Response whose echo is absent changes neither
\* the pending table nor any waiter.
C2_DeliveredToExactlyOneWaiter ==
    [][\A c \in 1..Len(conns) :
         ReaderTookResponse(c) =>
           LET f == Head(conns[c].inbox)
           IN  IF f.echo \in DOMAIN response_pending
               THEN LET k == response_pending[f.echo]
                    IN  /\ response_pending' = MapDel(response_pending, f.echo)
                        /\ calls' = [calls EXCEPT ![k] = Delivered(k, f, c)]
               ELSE /\ response_pending' = response_pending
                    /\ calls' = calls]_vars

\* C2 (amended): the entry is removed in the same step and the response is
\* handed to the sender stored under that echo: it resolves exactly that
\* waiter if the waiter is still waiting, and no waiter at all if it has timed
\* out; no other waiter changes.  An absent echo changes nothing.
C2_DeliveredToRegisteredWaiter ==
    [][\A c \in 1..Len(conns) :
         ReaderTookResponse(c) =>
           LET f == Head(conns[c].inbox)
           IN  IF f.echo \in DOMAIN response_pending
               THEN LET k == response_pending[f.echo]
                    IN  /\ response_pending' = MapDel(response_pending, f.echo)
                        /\ calls' = [calls EXCEPT ![k] =
                                       IF calls[k].st = "waiting"
                                       THEN Delivered(k, f, c) ELSE calls[k]]
               ELSE /\ response_pending' = response_pending
                    /\ calls' = calls]_vars

\* C2 witness: a waiter has received the response carrying its echo and its
\* entry is gone from the pending table, while another echo is still pending.
C2_Witness ==
    \E k \in 1..Len(calls) :
        /\ calls[k].st = "ok"
        /\ calls[k].res.echo = calls[k].echo
        /\ calls[k].echo \notin DOMAIN response_pending
        /\ response_pending # EmptyMap

\* C3: no two requests built in the process carry the same echo, the first
\* echo issued is "1", and every construction consumed exactly one counter
\* value.
C3_EchoUnique ==
    /\ \A i, j \in 1..Len(calls) : i # j => calls[i].echo # calls[j].echo
    /\ calls # <<>> => calls[1].echo = "1"
    /\ COUNTER = Len(calls) + 1

\* C3 witness: two requests have been constructed and neither has been handed
\* to call_api yet (their constructions were concurrent).
C3_Witness ==
    /\ Len(calls) >= 2
    /\ \A k \in 1..Len(calls) : calls[k].st = "built"

\* The condition of C4 in the claim's words: the Authorization header equals
\* "Bearer <token>", or no token is configured and the header is absent.
AuthorizationMatches(req) ==
    IF bearer.some THEN req.auth = HText(bearer.val) ELSE req.auth = HAbsent

\* C4 (as claimed): a handshake is accepted iff the Authorization header
\* matches and X-Self-ID and User-Agent are both present; an Authorization
\* mismatch is answered 401 whatever the other headers; a rejected handshake
\* leaves the routing table and the connections unchanged.
C4_HandshakeAcceptedIff ==
    /\ [](last_hs.status # 0 =>
            /\ (last_hs.status = 101) <=>
                   /\ AuthorizationMatches(last_hs.req)
                   /\ last_hs.req.self_id.kind # "absent"
                   /\ last_hs.req.ua.kind # "absent"
            /\ ~AuthorizationMatches(last_hs.req) => last_hs.status = 401)
    /\ [][(last_hs' # last_hs /\ last_hs'.status # 101) =>
            (endpoints_sender' = endpoints_sender /\ conns' = conns)]_vars

(***************************************************************************)
(* Part III: the Telegram pylon and the bridge                             *)
(***************************************************************************)
MaxTasks == 2      \* events and Telegram updates dequeued

BotEndpoint == [platform |-> "QQ", id |-> "10001"]

\* Telegram chats: the admin's private chat, a group that can be linked, a
\* forum supergroup that can be the archive
AdminChat == "admin"
LinkChat == "linked-group"
ArchiveChat == "archive-forum"

\* The configured admin (TelegramConfig.admin_id) and another Telegram user
AdminId == "admin-user"
OtherId == "other-user"

\* OneBot events (MessageEvent, FriendRecallEvent, GroupRecallEvent) in one
\* record shape; segments is the length of MessageEvent.message, at says that
\* one of the segments is an At segment; "" is None for the optional ids
\* a Telegram message's content as convert_and_send reads it: the kind of
\* media(), whether download_media and the transcoder succeed on it, whether
\* text() is non-empty
Media(kind, downloads, transcodes, text) ==
    [kind |-> kind, downloads |-> downloads, transcodes |-> transcodes, text |-> text]

TextOnly == Media("none", TRUE, TRUE, TRUE)

OnebotEv(post, kind, user, target, group, mid, segs) ==
    [post_type |-> post, kind |-> kind, self_id |-> BotEndpoint.id,
     user_id |-> user, target_id |-> target, group_id |-> group,
     message_id |-> mid, segments |-> segs, at |-> FALSE,
     update |-> "", data |-> "", media |-> TextOnly,
     tg_msg_id |-> 0, forum_topic |-> FALSE, reply_to_top_id |-> 0,
     reply_to_msg_id |-> 0]

PrivateMessage(mid, segs) == OnebotEv("message", "private", "42", "", "", mid, segs)
SentMessage(mid, segs) == OnebotEv("message_sent", "private", "10001", "42", "", mid, segs)
GroupMessage(mid, segs) == OnebotEv("message", "group", "42", "", "g1", mid, segs)
FriendRecall(user, mid) == OnebotEv("notice", "friend_recall", user, "", "", mid, 0)
GroupRecall(mid) == OnebotEv("notice", "group_recall", "42", "", "g1", mid, 0)

\* MessageReplyHeader: forum_topic, reply_to_top_id, reply_to_msg_id (0 is None)
Header(forum, top, reply) ==
    [forum_topic |-> forum, reply_to_top_id |-> top, reply_to_msg_id |-> reply]

NoHeader == Header(FALSE, 0, 0)

\* A Telegram update: Update::NewMessage (data is the bot command of the
\* message, "" if it has none) or Update::CallbackQuery (data is the button's
\* data), from sender in chat, with the id Telegram gave the message and its
\* reply header
TgUpdate(update, chat, sender, data, id, hdr) ==
    [post_type |-> "telegram", kind |-> chat, self_id |-> "", user_id |-> sender,
     target_id |-> "", group_id |-> "", message_id |-> "", segments |-> 1,
     at |-> FALSE, update |-> update, data |-> data, media |-> TextOnly,
     tg_msg_id |-> id, forum_topic |-> hdr.forum_topic,
     reply_to_top_id |-> hdr.reply_to_top_id,
     reply_to_msg_id |-> hdr.reply_to_msg_id]

\* MessageEvent::get_chat_type, NoticeEvent::get_chat_type
get_chat_type(e) ==
    IF e.post_type = "notice"
    THEN (IF e.kind = "friend_recall" THEN "Private" ELSE "Group")
    ELSE (IF e.kind = "group" THEN "Group" ELSE "Private")

\* MessageEvent::get_chat_id, FriendRecallEvent/GroupRecallEvent::get_chat_id
get_chat_id(e) ==
    IF e.post_type = "notice"
    THEN (IF e.kind = "friend_recall" THEN e.user_id ELSE e.group_id)
    ELSE IF e.kind = "private"
         THEN (IF e.target_id # "" THEN e.target_id ELSE e.user_id)
         ELSE IF e.kind = "group" THEN e.group_id ELSE ""

\* remote_chat::Model::to_id and the key the event pump computes
ChatKey(ct, id) == [endpoint |-> BotEndpoint, chat_type |-> ct, target_id |-> id]

remote_chat_key(e) == ChatKey(get_chat_type(e), get_chat_id(e))

NoTarget == [chat |-> "", reply_to |-> 0]

NewTask(e) == [ev |-> e, pc |-> "spawned", key |-> ChatKey("Private", ""),
               rc |-> 0, target |-> NoTarget, res |-> "", message_id |-> ""]

\* ---- with_id_lock! ----
\* entry(id).or_insert_with(..).clone(); lock().await: the task joins the
\* Mutex's FIFO queue; the head of the queue holds the lock
LockQueue(locks, id) == IF id \in DOMAIN locks THEN locks[id] ELSE <<>>

\* a Mutex of its own for every caller: insert() in place of the entry API
insert_new(locks, id) == MapPut(locks, id, <<>>)

\* DashMap::entry(id).or_insert_with(|| Arc::new(Mutex::new(()))): one atomic
\* get-or-insert under the shard's lock; the Mutex stored is never replaced
or_insert_with(locks, id) ==
    IF id \in DOMAIN locks THEN locks ELSE MapPut(locks, id, <<>>)

lock(locks, id, t) ==
    LET m == or_insert_with(locks, id)
    IN  MapPut(m, id, Append(m[id], t))

InQueue(q, t) == \E i \in 1..Len(q) : q[i] = t

\* no mutual exclusion: any task that called lock() proceeds
AcquiredAny(locks, id, t) == InQueue(LockQueue(locks, id), t)

Acquired(locks, id, t) ==
    /\ LockQueue(locks, id) # <<>>
    /\ Head(LockQueue(locks, id)) = t

\* a guard that is never dropped
unlock_leaked(locks, id, t) == locks

\* the guard is dropped at the end of the block
unlock(locks, id, t) ==
    MapPut(locks, id, SelectSeq(LockQueue(locks, id), LAMBDA x : x # t))

\* ---- the bridge's tables (bridge.rs) ----
RemoteChatId(rows, key) ==
    IF \E i \in 1..Len(rows) : rows[i] = key
    THEN CHOOSE i \in 1..Len(rows) : rows[i] = key
    ELSE 0

\* Bridge::get_remote_chat: the cache, then the table, then the remote API
\* (no_cache) followed by an insert
get_remote_chat(rows, cache, key, api_ok) ==
    IF key \in cache \/ RemoteChatId(rows, key) # 0
    THEN [ok |-> TRUE, id |-> RemoteChatId(rows, key), rows |-> rows,
          cache |-> cache \cup {key}]
    ELSE IF api_ok
         THEN [ok |-> TRUE, id |-> Len(rows) + 1, rows |-> Append(rows, key),
               cache |-> cache \cup {key}]
         ELSE [ok |-> FALSE, id |-> 0, rows |-> rows, cache |-> cache]

\* a lookup that forgets the message id
find_message_by_chat(rows, remote_chat_id, message_id) ==
    {r \in rows : r.remote_chat_id = remote_chat_id}

find_message_by_remote(rows, remote_chat_id, message_id) ==
    {r \in rows : r.remote_chat_id = remote_chat_id /\ r.remote_msg_id = message_id}

find_message_by_tg(rows, tg_chat_id, tg_msg_id) ==
    {r \in rows : r.tg_chat_id = tg_chat_id /\ r.tg_msg_id = tg_msg_id}

\* .one() of a query: the row inserted first
FirstRow(found) == CHOOSE r \in found : \A q \in found : r.tg_msg_id <= q.tg_msg_id

find_link_by_remote(links, remote_chat_id) ==
    {l \in links : l.remote_chat_id = remote_chat_id}

find_link_by_tg(links, tg_chat_id) == {l \in links : l.tg_chat_id = tg_chat_id}

find_archive_by_endpoint(archives, endpoint) ==
    {a \in archives : a.endpoint = endpoint}

\* topic joined with archive: the remote chats of the topic in that forum
find_archive_by_tg(topics, archives, tg_chat_id, tg_topic_id) ==
    {t.remote_chat_id : t \in {x \in topics : /\ x.tg_topic_id = tg_topic_id
                                              /\ x.archive \in archives
                                              /\ x.archive.tg_chat_id = tg_chat_id}}

\* an insert that writes nothing
save_message_lost(rows, remote_chat_id, remote_message_id, tg_chat_id, tg_msg_id) ==
    rows

\* Bridge::save_message_by_remote: the insert fails on the unique index
\* (tg_chat_id, tg_msg_id)
save_message_by_remote(rows, remote_chat_id, remote_message_id, tg_chat_id, tg_msg_id) ==
    IF find_message_by_tg(rows, tg_chat_id, tg_msg_id) # {}
    THEN rows
    ELSE rows \cup {[tg_chat_id |-> tg_chat_id, tg_msg_id |-> tg_msg_id,
                     remote_chat_id |-> remote_chat_id,
                     remote_msg_id |-> remote_message_id,
                     delivery_status |-> "Sent"]}

\* Bridge::create_link: unique indexes on tg_chat_id and on remote_chat_id
create_link(links, tg_chat_id, remote_chat_id) ==
    IF find_link_by_tg(links, tg_chat_id) # {}
       \/ find_link_by_remote(links, remote_chat_id) # {}
    THEN links
    ELSE links \cup {[tg_chat_id |-> tg_chat_id, remote_chat_id |-> remote_chat_id]}

delete_link(links, l) == links \ {l}

\* Bridge::create_archive: unique index on endpoint
create_archive(archives, endpoint, tg_chat_id) ==
    IF find_archive_by_endpoint(archives, endpoint) # {}
    THEN archives
    ELSE archives \cup {[endpoint |-> endpoint, tg_chat_id |-> tg_chat_id]}

\* Bridge::create_topic: one insert into the topic table
create_topic(topics, a, tg_topic_id, remote_chat_id) ==
    topics \cup {[archive |-> a, tg_topic_id |-> tg_topic_id,
                  remote_chat_id |-> remote_chat_id]}


\* Bridge::get_or_create_topic: the topic of the remote chat, or a new forum
\* topic whose id is the id of the service message Telegram answers with.
\* CreateForumTopic and create_topic are two awaits joined by `?`: when the
\* insert fails (rec_ok = FALSE) the forum topic exists in Telegram, its id is
\* used up, and no Topic row records it
get_or_create_topic(topics, a, remote_chat_id, tg_ok, rec_ok, next_id) ==
    LET found == {t \in topics : t.remote_chat_id = remote_chat_id}
    IN  IF found # {}
        THEN [ok |-> TRUE, id |-> (CHOOSE t \in found : TRUE).tg_topic_id,
              topics |-> topics, next |-> next_id]
        ELSE IF ~tg_ok
             THEN [ok |-> FALSE, id |-> 0, topics |-> topics, next |-> next_id]
             ELSE IF rec_ok
                  THEN [ok |-> TRUE, id |-> next_id,
                        topics |-> create_topic(topics, a, next_id, remote_chat_id),
                        next |-> next_id + 1]
                  ELSE [ok |-> FALSE, id |-> next_id, topics |-> topics,
                        next |-> next_id + 1]

\* routing with the archive looked up before the link
fetch_chat_and_title_archive_first(links, archives, topics, remote_chat_id, tg_ok, rec_ok, next_id) ==
    LET ls == find_link_by_remote(links, remote_chat_id)
        as == find_archive_by_endpoint(archives, BotEndpoint)
    IN  IF as # {}
        THEN LET a == CHOOSE x \in as : TRUE
                 tp == get_or_create_topic(topics, a, remote_chat_id, tg_ok, rec_ok,
                                           next_id)
             IN  [ok |-> tp.ok /\ tg_ok, chat |-> a.tg_chat_id, reply_to |-> tp.id,
                  topics |-> tp.topics, next |-> tp.next]
        ELSE [ok |-> tg_ok,
              chat |-> IF ls # {} THEN (CHOOSE l \in ls : TRUE).tg_chat_id ELSE AdminChat,
              reply_to |-> 0, topics |-> topics, next |-> next_id]

\* TelegramPylon::fetch_chat_and_title: the target chat and the initial
\* reply_to (0 is None); get_tg_chat and the topic creation are Telegram RPCs
fetch_chat_and_title(links, archives, topics, remote_chat_id, tg_ok, rec_ok, next_id) ==
    LET ls == find_link_by_remote(links, remote_chat_id)
        as == find_archive_by_endpoint(archives, BotEndpoint)
    IN  IF ls # {}
        THEN [ok |-> tg_ok, chat |-> (CHOOSE l \in ls : TRUE).tg_chat_id,
              reply_to |-> 0, topics |-> topics, next |-> next_id]
        ELSE IF as # {}
             THEN LET a == CHOOSE x \in as : TRUE
                      tp == get_or_create_topic(topics, a, remote_chat_id, tg_ok, rec_ok,
                                           next_id)
                  IN  [ok |-> tp.ok /\ tg_ok, chat |-> a.tg_chat_id,
                       reply_to |-> tp.id, topics |-> tp.topics, next |-> tp.next]
             ELSE [ok |-> tg_ok, chat |-> AdminChat, reply_to |-> 0,
                   topics |-> topics, next |-> next_id]

\* ---- remote -> Telegram (telegram_pylon.rs run, from_onebot.rs) ----
Finish(ts, t, res) == [ts EXCEPT ![t].pc = "done", ![t].res = res]

\* MessageEvent::get_chat_id evaluates group_id.clone().unwrap() for a
\* message of type "group": a panic when the event carries no group_id
get_chat_id_panics(e) ==
    e.post_type # "notice" /\ e.kind = "group" /\ e.group_id = ""

\* the event pump: recv() an event, compute its key, tokio::spawn its task;
\* the key is computed in the pump's own task, whose panic ends the loop
Pump(e) ==
    /\ Len(tasks) < MaxTasks
    /\ loops.pump = "running"
    /\ IF get_chat_id_panics(e)
       THEN /\ loops' = [loops EXCEPT !.pump = "panicked"]
            /\ UNCHANGED tasks
       ELSE /\ tasks' = Append(tasks, [NewTask(e) EXCEPT !.key = remote_chat_key(e)])
            /\ UNCHANGED loops
    /\ UNCHANGED <<remote_id_lock, tg_id_lock, remote_chat, remote_chat_cache,
                   message, link, archive, topic, tg_log, tg_next, remote_log,
                   uuid_next>>
    /\ UNCHANGED <<apiVars, rateVars, callback_cache, shutdown, chatVars, indexVars, eval>>

\* the spawned task is polled for the first time and calls lock() on the
\* Mutex of its key
TaskLock(t) ==
    /\ tasks[t].pc = "spawned"
    /\ tasks[t].ev.post_type # "telegram"
    /\ remote_id_lock' = lock(remote_id_lock, tasks[t].key, t)
    /\ tasks' = [tasks EXCEPT ![t].pc = "locked"]
    /\ UNCHANGED <<tg_id_lock, remote_chat, remote_chat_cache, message, link,
                   archive, topic, tg_log, tg_next, remote_log, uuid_next>>
    /\ UNCHANGED <<apiVars, rateVars, extVars>>

\* process_onebot_message up to the send: empty check, get_remote_chat, the
\* duplicate check, fetch_chat_and_title, the conversion of the segments
ProcessOnebotMessage(t, api_ok, tg_ok, rec_ok) ==
    /\ tasks[t].pc = "locked"
    /\ tasks[t].ev.post_type \in {"message", "message_sent"}
    /\ Acquired(remote_id_lock, tasks[t].key, t)
    /\ LET e == tasks[t].ev
           g == get_remote_chat(remote_chat, remote_chat_cache,
                                ChatKey(get_chat_type(e), get_chat_id(e)), api_ok)
           f == fetch_chat_and_title(link, archive, topic, g.id, tg_ok, rec_ok, tg_next)
       IN  IF e.segments = 0 \/ ~g.ok
           THEN /\ tasks' = Finish(tasks, t, IF e.segments = 0 THEN "skipped" ELSE "err")
                /\ remote_id_lock' = unlock(remote_id_lock, tasks[t].key, t)
                /\ UNCHANGED <<remote_chat, remote_chat_cache, topic, tg_next>>
           ELSE /\ remote_chat' = g.rows
                /\ remote_chat_cache' = g.cache
                /\ IF find_message_by_remote(message, g.id, e.message_id) # {}
                   THEN /\ tasks' = Finish(tasks, t, "duplicate")
                        /\ remote_id_lock' = unlock(remote_id_lock, tasks[t].key, t)
                        /\ UNCHANGED <<topic, tg_next>>
                   ELSE IF ~f.ok
                        \* a forum topic created before the error stays in
                        \* Telegram: target keeps its id
                        THEN /\ tasks' = [Finish(tasks, t, "err") EXCEPT
                                            ![t].target =
                                                IF f.reply_to # 0
                                                THEN [chat |-> f.chat,
                                                      reply_to |-> f.reply_to]
                                                ELSE @]
                             /\ remote_id_lock' = unlock(remote_id_lock, tasks[t].key, t)
                             /\ topic' = f.topics
                             /\ tg_next' = f.next
                        ELSE IF e.at /\ e.group_id = ""
                        \* Segment::At: message.group_id.as_ref().unwrap()
                        \* panics in the spawned task, which drops its guard
                        THEN /\ tasks' = Finish(tasks, t, "panicked")
                             /\ remote_id_lock' = unlock(remote_id_lock, tasks[t].key, t)
                             /\ topic' = f.topics
                             /\ tg_next' = f.next
                        ELSE /\ tasks' = [tasks EXCEPT
                                            ![t].pc = "sending", ![t].rc = g.id,
                                            ![t].target = [chat |-> f.chat,
                                                           reply_to |-> f.reply_to]]
                             /\ topic' = f.topics
                             /\ tg_next' = f.next
                             /\ UNCHANGED remote_id_lock
    /\ UNCHANGED <<tg_id_lock, message, link, archive, tg_log, remote_log, uuid_next>>
    /\ UNCHANGED <<apiVars, rateVars, extVars>>

\* the Telegram messages one send of event e produces: one message, or an
\* album with one message per segment
Sent(t, first, n) ==
    [i \in 1..n |-> [chat |-> tasks[t].target.chat, id |-> first + i - 1,
                     reply_to |-> tasks[t].target.reply_to, kind |-> "relay", text |-> "",
                     task |-> t, remote_chat_id |-> tasks[t].rc,
                     remote_msg_id |-> tasks[t].ev.message_id]]

RECURSIVE SaveAll(_, _)
SaveAll(rows, msgs) ==
    IF msgs = <<>> THEN rows
    ELSE SaveAll(save_message_by_remote(rows, Head(msgs).remote_chat_id,
                                        Head(msgs).remote_msg_id, Head(msgs).chat,
                                        Head(msgs).id),
                 Tail(msgs))

\* process_onebot_message from the send on: send_telegram_message or
\* send_telegram_album, then save_message_by_remote for every message returned
SendTelegram(t, tg_ok) ==
    /\ tasks[t].pc = "sending"
    /\ LET ret == Sent(t, tg_next, tasks[t].ev.segments)
       IN  IF tg_ok
           THEN /\ tg_log' = tg_log \o ret
                /\ tg_next' = tg_next + Len(ret)
                /\ message' = SaveAll(message, ret)
                /\ tasks' = Finish(tasks, t, "sent")
           ELSE /\ tasks' = Finish(tasks, t, "err")
                /\ UNCHANGED <<tg_log, tg_next, message>>
    /\ remote_id_lock' = unlock(remote_id_lock, tasks[t].key, t)
    /\ UNCHANGED <<tg_id_lock, remote_chat, remote_chat_cache, link, archive,
                   topic, remote_log, uuid_next>>
    /\ UNCHANGED <<apiVars, rateVars, extVars>>

RecallFailures == {"none", "fetch", "send"}

\* process_onebot_notice for friend_recall and group_recall; api_ok is the
\* outcome of get_stranger_info / get_group_member_info and of the API call
\* inside get_remote_chat, fail the Telegram RPC that fails, if any
ProcessOnebotNotice(t, api_ok, fail) ==
    /\ tasks[t].pc = "locked"
    /\ tasks[t].ev.post_type = "notice"
    /\ Acquired(remote_id_lock, tasks[t].key, t)
    /\ LET e == tasks[t].ev
           g == get_remote_chat(remote_chat, remote_chat_cache,
                                ChatKey(get_chat_type(e), get_chat_id(e)), TRUE)
           found == find_message_by_remote(message, g.id, e.message_id)
           msg == FirstRow(found)
           recalled == (message \ {msg}) \cup
                           {[msg EXCEPT !.delivery_status = "Recalled"]}
           f == fetch_chat_and_title(link, archive, topic, g.id, fail # "fetch", TRUE,
                                     tg_next)
           fake_id == "fake:" \o ToString(uuid_next)
           marker == [chat |-> f.chat, id |-> f.next, reply_to |-> msg.tg_msg_id,
                      kind |-> "marker", text |-> "", task |-> t,
                      remote_chat_id |-> g.id,
                      remote_msg_id |-> fake_id]
       IN  IF (e.kind = "friend_recall" /\ e.self_id = e.user_id) \/ ~api_ok
           THEN /\ tasks' = Finish(tasks, t, IF api_ok THEN "skipped" ELSE "err")
                /\ UNCHANGED <<remote_chat, remote_chat_cache, message, topic,
                               tg_log, tg_next, uuid_next>>
           ELSE /\ remote_chat' = g.rows
                /\ remote_chat_cache' = g.cache
                /\ IF found = {}
                   THEN /\ tasks' = Finish(tasks, t, "nomap")
                        /\ UNCHANGED <<message, topic, tg_log, tg_next, uuid_next>>
                   ELSE IF ~f.ok
                        THEN /\ message' = recalled
                             /\ tasks' = Finish(tasks, t, "err")
                             /\ UNCHANGED <<topic, tg_log, tg_next, uuid_next>>
                        ELSE IF fail = "send"
                             THEN /\ message' = recalled
                                  /\ topic' = f.topics
                                  /\ tg_next' = f.next
                                  /\ tasks' = Finish(tasks, t, "err")
                                  /\ UNCHANGED <<tg_log, uuid_next>>
                             ELSE /\ tg_log' = Append(tg_log, marker)
                                  /\ tg_next' = f.next + 1
                                  /\ uuid_next' = uuid_next + 1
                                  /\ topic' = f.topics
                                  /\ message' = save_message_by_remote(
                                                    recalled, g.id, fake_id,
                                                    f.chat, f.next)
                                  /\ tasks' = Finish(tasks, t, "recalled")
    /\ remote_id_lock' = unlock(remote_id_lock, tasks[t].key, t)
    /\ UNCHANGED <<tg_id_lock, link, archive, remote_log>>
    /\ UNCHANGED <<apiVars, rateVars, extVars>>

\* ---- Telegram -> remote (telegram_pylon.rs handle_message, from_telegram.rs) ----
\* the reply headers a new message in chat can carry: none; a reply to a
\* message the bot sent in that chat; a plain message in a forum topic
\* (forum_topic, reply_to_msg_id = topic); and a reply to a message the bot
\* relayed into a forum topic (forum_topic, reply_to_top_id = topic,
\* reply_to_msg_id = the message)
ReplyHeaders(chat) ==
    LET sent == {tg_log[i] : i \in {j \in 1..Len(tg_log) : tg_log[j].chat = chat}}
        in_topic == {x \in sent : x.kind = "relay" /\ x.reply_to # 0}
    IN  {NoHeader}
        \cup {Header(FALSE, 0, m.id) : m \in sent \ in_topic}
        \cup {Header(TRUE, 0, tp.tg_topic_id) :
                  tp \in {x \in topic : x.archive.tg_chat_id = chat}}
        \cup {Header(TRUE, 0, m.reply_to) : m \in in_topic}
        \cup {Header(TRUE, m.reply_to, m.id) : m \in in_topic}

\* handle_message: next_update() yields Update::NewMessage without a bot
\* command, a task is spawned
TgNewMessage(chat, sender, hdr) ==
    /\ Len(tasks) < MaxTasks
    /\ loops.updates = "running"
    /\ tasks' = Append(tasks, [NewTask(TgUpdate("NewMessage", chat, sender, "",
                                                tg_next, hdr))
                                 EXCEPT !.target = [chat |-> chat, reply_to |-> 0]])
    /\ tg_next' = tg_next + 1
    /\ UNCHANGED <<remote_id_lock, tg_id_lock, remote_chat, remote_chat_cache,
                   message, link, archive, topic, tg_log, remote_log, uuid_next>>
    /\ UNCHANGED <<apiVars, rateVars, extVars>>

\* Update::NewMessage carrying media, a caption, or both
TgNewMedia(chat, sender, md) ==
    /\ Len(tasks) < MaxTasks
    /\ loops.updates = "running"
    /\ tasks' = Append(tasks, [NewTask([TgUpdate("NewMessage", chat, sender, "",
                                                 tg_next, NoHeader)
                                           EXCEPT !.media = md])
                                 EXCEPT !.target = [chat |-> chat, reply_to |-> 0]])
    /\ tg_next' = tg_next + 1
    /\ UNCHANGED <<remote_id_lock, tg_id_lock, remote_chat, remote_chat_cache,
                   message, link, archive, topic, tg_log, remote_log, uuid_next>>
    /\ UNCHANGED <<apiVars, rateVars, extVars>>

\* the spawned task calls lock() on the Mutex of the Telegram chat
TgTaskLock(t) ==
    /\ tasks[t].pc = "spawned"
    /\ tasks[t].ev.post_type = "telegram"
    /\ tg_id_lock' = lock(tg_id_lock, tasks[t].ev.kind, t)
    /\ tasks' = [tasks EXCEPT ![t].pc = "locked"]
    /\ UNCHANGED <<remote_id_lock, remote_chat, remote_chat_cache, message, link,
                   archive, topic, tg_log, tg_next, remote_log, uuid_next>>
    /\ UNCHANGED <<apiVars, rateVars, extVars>>

\* the resolution with the replied message looked up before the link
ResolveRemoteChat_reply_first(links, topics, archives, rows, m) ==
    LET ls == find_link_by_tg(links, m.kind)
        tg_topic_id == IF m.reply_to_top_id # 0 THEN m.reply_to_top_id
                       ELSE m.reply_to_msg_id
        ts == find_archive_by_tg(topics, archives, m.kind, tg_topic_id)
        ms == find_message_by_tg(rows, m.kind, m.reply_to_msg_id)
    IN  IF m.reply_to_msg_id # 0 /\ ms # {}
        THEN (CHOOSE r \in ms : TRUE).remote_chat_id
        ELSE IF ls # {} THEN (CHOOSE l \in ls : TRUE).remote_chat_id
        ELSE IF m.forum_topic /\ tg_topic_id # 0 /\ ts # {}
             THEN CHOOSE rc \in ts : TRUE
             ELSE 0

\* process_message: the remote chat of a Telegram message, 0 if none: by
\* link, else by forum topic, else by the replied message
ResolveRemoteChat(links, topics, archives, rows, m) ==
    LET ls == find_link_by_tg(links, m.kind)
        \* header.reply_to_top_id.or(header.reply_to_msg_id)
        tg_topic_id == IF m.reply_to_top_id # 0 THEN m.reply_to_top_id
                       ELSE m.reply_to_msg_id
        ts == find_archive_by_tg(topics, archives, m.kind, tg_topic_id)
        ms == find_message_by_tg(rows, m.kind, m.reply_to_msg_id)
    IN  IF ls # {} THEN (CHOOSE l \in ls : TRUE).remote_chat_id
        ELSE IF m.forum_topic
             THEN (IF tg_topic_id # 0 /\ ts # {} THEN CHOOSE rc \in ts : TRUE ELSE 0)
             ELSE IF m.reply_to_msg_id # 0 /\ ms # {}
                  THEN (CHOOSE r \in ms : TRUE).remote_chat_id
                  ELSE 0

\* a reply the bot writes under the admin's message
Warning(t, id) ==
    [chat |-> tasks[t].ev.kind, id |-> id, reply_to |-> tasks[t].ev.tg_msg_id,
     kind |-> "warning", text |-> "", task |-> t, remote_chat_id |-> 0,
     remote_msg_id |-> ""]

\* message.reply(InputMessage::html(text))
Reply(t, id, text) == [Warning(t, id) EXCEPT !.text = text]

CantBeMapped == "The message can't be mapped to a remote chat"
FailedToSend == "Failed to send message to remote"
FailedToConvert == "Failed to convert message for remote"
FailedToProcess == "[WARN] Failed to process message"

\* the media kinds convert_and_send downloads
Downloaded == {"photo", "gif", "sticker"}

\* video_to_gif, webm_to_gif, tgs_to_gif: Ok pushes an image segment with the
\* transcoded bytes, Err logs a warning and pushes nothing
transcode(md) ==
    IF md.transcodes THEN <<[type |-> "image", data |-> "transcoded"]>> ELSE <<>>

\* the segments convert_and_send builds: a photo, voice, video or file goes
\* out with the downloaded bytes, a small GIF (at most GIF_THRESHOLD bytes)
\* and a webm or tgs sticker are transcoded, any other media gives nothing;
\* a text segment follows when text() is not empty
Segments(md) ==
    (CASE md.kind = "photo" -> <<[type |-> "image", data |-> "original"]>>
       [] md.kind \in {"gif", "sticker"} -> transcode(md)
       [] OTHER -> <<>>)
    \o (IF md.text THEN <<[type |-> "text", data |-> "text"]>> ELSE <<>>)

\* tg_helper::check_sender: not outgoing, and sent by the configured admin
check_sender(admin_id, m) == m.user_id = admin_id

\* process_message up to with_id_lock!(remote_id_lock, ..): check the sender,
\* resolve the remote chat and call lock() on its Mutex, or answer that the
\* message can't be mapped
ProcessMessage(t, tg_ok) ==
    /\ tasks[t].pc = "locked"
    /\ tasks[t].ev.post_type = "telegram"
    /\ tasks[t].ev.update = "NewMessage"
    /\ tasks[t].ev.data = ""
    /\ Acquired(tg_id_lock, tasks[t].ev.kind, t)
    /\ LET rc == ResolveRemoteChat(link, topic, archive, message, tasks[t].ev)
       IN  IF ~check_sender(AdminId, tasks[t].ev)
           THEN /\ tasks' = Finish(tasks, t, "ignored")
                /\ tg_id_lock' = unlock(tg_id_lock, tasks[t].ev.kind, t)
                /\ UNCHANGED <<remote_id_lock, tg_log, tg_next>>
           ELSE IF rc # 0
           THEN /\ tasks' = [tasks EXCEPT ![t].pc = "resolved", ![t].rc = rc,
                                          ![t].key = remote_chat[rc]]
                /\ remote_id_lock' = lock(remote_id_lock, remote_chat[rc], t)
                /\ UNCHANGED <<tg_id_lock, tg_log, tg_next>>
           ELSE /\ tasks' = Finish(tasks, t, "unmapped")
                /\ tg_id_lock' = unlock(tg_id_lock, tasks[t].ev.kind, t)
                /\ IF tg_ok
                   THEN /\ tg_log' = Append(tg_log, Reply(t, tg_next, CantBeMapped))
                        /\ tg_next' = tg_next + 1
                   ELSE UNCHANGED <<tg_log, tg_next>>
                /\ UNCHANGED remote_id_lock
    /\ UNCHANGED <<remote_chat, remote_chat_cache, message, link, archive, topic,
                   remote_log, uuid_next>>
    /\ UNCHANGED <<apiVars, rateVars, extVars>>

\* send_msg issued whatever the segment list holds
send_or_reply_unchecked(md, segments, api_ok) ==
    IF api_ok THEN [res |-> "sent", text |-> ""]
    ELSE [res |-> "failed", text |-> FailedToSend]

\* what convert_and_send ends with: the error of a failing download_media,
\* the reply for an empty segment list, or send_msg and its result
send_or_reply(md, segments, api_ok) ==
    IF md.kind \in Downloaded /\ ~md.downloads
    THEN [res |-> "err", text |-> FailedToProcess]
    ELSE IF segments = <<>>
         THEN [res |-> "unconverted", text |-> FailedToConvert]
         ELSE IF api_ok
              THEN [res |-> "sent", text |-> ""]
              ELSE [res |-> "failed", text |-> FailedToSend]

\* the remote message ids the adapter has given out so far
SentIds == {tasks[t].message_id : t \in 1..Len(tasks)} \ {""}

\* convert_and_send under the remote chat's lock, up to the await of
\* send_msg: the segments are built (a failing download_media is an error of
\* process_message, which the spawned task answers with its own reply);
\* without segments only the reply.  A request the adapter accepts
\* (api_ok) is delivered to the remote chat under a new message id, and the
\* handler waits for the response with both locks held
ConvertAndSend(t, api_ok, tg_ok) ==
    /\ tasks[t].pc = "resolved"
    /\ Acquired(remote_id_lock, tasks[t].key, t)
    /\ LET m == tasks[t].ev
           segments == Segments(m.media)
           outcome == send_or_reply(m.media, segments, api_ok)
       IN  IF outcome.res = "sent"
           THEN /\ tasks' = [tasks EXCEPT
                               ![t].pc = "awaiting",
                               ![t].message_id =
                                   "out" \o ToString(Cardinality(SentIds) + 1)]
                /\ UNCHANGED <<tg_log, tg_next, remote_id_lock, tg_id_lock>>
           ELSE /\ tasks' = Finish(tasks, t, outcome.res)
                /\ IF tg_ok
                   THEN /\ tg_log' = Append(tg_log, Reply(t, tg_next, outcome.text))
                        /\ tg_next' = tg_next + 1
                   ELSE UNCHANGED <<tg_log, tg_next>>
                /\ remote_id_lock' = unlock(remote_id_lock, tasks[t].key, t)
                /\ tg_id_lock' = unlock(tg_id_lock, tasks[t].ev.kind, t)
    /\ UNCHANGED <<remote_chat, remote_chat_cache, message, link, archive, topic,
                   remote_log, uuid_next>>
    /\ UNCHANGED <<apiVars, rateVars, extVars>>

\* convert_and_send from the return of send_msg on: Ok(message_id) within
\* API_TIMOUT (in_time) is followed by save_message_by_remote; the timeout
\* error of call_api by the failure reply.  Then both guards are dropped
SendMsgReturns(t, in_time, tg_ok) ==
    /\ tasks[t].pc = "awaiting"
    /\ LET m == tasks[t].ev
       IN  IF in_time
           THEN /\ remote_log' = Append(remote_log,
                                        [remote_chat_id |-> tasks[t].rc,
                                         remote_msg_id |-> tasks[t].message_id,
                                         tg_chat_id |-> m.kind,
                                         tg_msg_id |-> m.tg_msg_id, task |-> t,
                                         segments |-> Segments(m.media)])
                /\ message' = save_message_by_remote(message, tasks[t].rc,
                                                     tasks[t].message_id,
                                                     m.kind, m.tg_msg_id)
                /\ tasks' = Finish(tasks, t, "sent")
                /\ UNCHANGED <<tg_log, tg_next>>
           ELSE /\ tasks' = Finish(tasks, t, "failed")
                /\ IF tg_ok
                   THEN /\ tg_log' = Append(tg_log, Reply(t, tg_next, FailedToSend))
                        /\ tg_next' = tg_next + 1
                   ELSE UNCHANGED <<tg_log, tg_next>>
                /\ UNCHANGED <<remote_log, message>>
    /\ remote_id_lock' = unlock(remote_id_lock, tasks[t].key, t)
    /\ tg_id_lock' = unlock(tg_id_lock, tasks[t].ev.kind, t)
    /\ UNCHANGED <<remote_chat, remote_chat_cache, link, archive, topic, uuid_next>>
    /\ UNCHANGED <<apiVars, rateVars, extVars>>

\* ---- commands (command.rs) ----
\* the link callback in the group chat: Bridge::create_link, errors logged
CreateLink(remote_chat_id) ==
    /\ link' = create_link(link, LinkChat, remote_chat_id)
    /\ link' # link
    /\ UNCHANGED <<tasks, remote_id_lock, tg_id_lock, remote_chat, remote_chat_cache,
                   message, archive, topic, tg_log, tg_next, remote_log, uuid_next>>
    /\ UNCHANGED <<apiVars, rateVars, extVars>>

DeleteLink(l) ==
    /\ link' = delete_link(link, l)
    /\ UNCHANGED <<tasks, remote_id_lock, tg_id_lock, remote_chat, remote_chat_cache,
                   message, archive, topic, tg_log, tg_next, remote_log, uuid_next>>
    /\ UNCHANGED <<apiVars, rateVars, extVars>>

\* the archive callback in the forum: Bridge::create_archive, errors logged
CreateArchive ==
    /\ archive' = create_archive(archive, BotEndpoint, ArchiveChat)
    /\ archive' # archive
    /\ UNCHANGED <<tasks, remote_id_lock, tg_id_lock, remote_chat, remote_chat_cache,
                   message, link, topic, tg_log, tg_next, remote_log, uuid_next>>
    /\ UNCHANGED <<apiVars, rateVars, extVars>>

\* Bridge::delete_archive: the archive's topics, then the archive
DeleteArchive(a) ==
    /\ topic' = {tp \in topic : tp.archive # a}
    /\ archive' = archive \ {a}
    /\ UNCHANGED <<tasks, remote_id_lock, tg_id_lock, remote_chat, remote_chat_cache,
                   message, link, tg_log, tg_next, remote_log, uuid_next>>
    /\ UNCHANGED <<apiVars, rateVars, extVars>>

\* ---- the connect lifecycle event (from_onebot.rs process_onebot_meta) ----
\* update_remote_private_chat / update_remote_group_chat: insert, on conflict
\* with (endpoint, chat_type, target_id) update name and updated_at
update_remote_chat(rows, key) ==
    IF RemoteChatId(rows, key) # 0 THEN rows ELSE Append(rows, key)

\* one friend or group of the lists the connect handler walks through
UpdateRemoteChat(key) ==
    /\ remote_chat' = update_remote_chat(remote_chat, key)
    /\ remote_chat' # remote_chat
    /\ UNCHANGED <<tasks, remote_id_lock, tg_id_lock, remote_chat_cache, message,
                   link, archive, topic, tg_log, tg_next, remote_log, uuid_next>>
    /\ UNCHANGED <<apiVars, rateVars, extVars>>

(***************************************************************************)
(* Part V: commands and inline-button callbacks (command.rs)               *)
(***************************************************************************)
MaxUpdates == 3    \* commands and button presses dequeued

\* CommandCallback; page is 0 and keyword is "" throughout (the remote chats
\* fit on one page and no filter is given)
CommandCallback(category, action, data) ==
    [category |-> category, action |-> action, data |-> data]

\* Endpoint's Display ("<platform>:<id>") and FromStr over the endpoints the
\* bridge knows
EndpointStr(ep) == ep.platform \o ":" \o ep.id

ParseEndpoint(s) == IF s = EndpointStr(BotEndpoint) THEN Some(BotEndpoint) ELSE None

\* str::parse::<i64> of a row id below n
ParseId(s, n) == {i \in 1..n : ToString(i) = s}

\* the DefaultHasher digest of the callback's fields as a decimal string;
\* distinct callbacks are taken to have distinct digests
Hash(cb) == cb.category \o "/" \o cb.action \o "/" \o cb.data

\* Bridge::put_callback: callback_cache.insert(hash, callback)
put_callback(cache, cb) == MapPut(cache, Hash(cb), cb)

RECURSIVE put_callbacks(_, _)
put_callbacks(cache, cbs) ==
    IF cbs = {} THEN cache
    ELSE LET cb == CHOOSE x \in cbs : TRUE
         IN  put_callbacks(put_callback(cache, cb), cbs \ {cb})

\* a lookup that leaves the entry in the map
get_callback_keep(cache, hash) ==
    [value |-> IF hash \in DOMAIN cache THEN Some(cache[hash]) ELSE None,
     cache |-> cache]

\* Bridge::get_callback: callback_cache.remove(hash)
get_callback(cache, hash) ==
    [value |-> IF hash \in DOMAIN cache THEN Some(cache[hash]) ELSE None,
     cache |-> MapDel(cache, hash)]

\* list_link: the callbacks it puts, one per remote chat (delete its link, or
\* link it to this chat) and the cancel button; none when no remote chat is
\* known.  A link row is identified by its remote chat (link_unq_remote_chat)
list_link(links, rows) ==
    IF Len(rows) = 0 THEN {}
    ELSE {CommandCallback("link",
                          IF find_link_by_remote(links, rc) # {}
                          THEN "delete" ELSE "create",
                          ToString(rc)) : rc \in 1..Len(rows)}
         \cup {CommandCallback("link", "cancel", "")}

\* list_archive: the callbacks it puts, one per endpoint of the remote chats
\* (delete its archive, or archive it in this chat) and the cancel button.
\* An archive row is identified by its endpoint (archive_unq_endpoint)
list_archive(archives, rows) ==
    {CommandCallback("archive",
                     IF find_archive_by_endpoint(archives, rows[i].endpoint) # {}
                     THEN "delete" ELSE "create",
                     EndpointStr(rows[i].endpoint)) : i \in 1..Len(rows)}
    \cup {CommandCallback("archive", "cancel", "")}

\* the tokens of the buttons a chat can show: the link menu lives in the
\* regular group, the archive menu in the forum
Buttons(chat) ==
    LET shown == \E i \in 1..Len(tg_log) :
                     tg_log[i].chat = chat /\ tg_log[i].kind = "menu"
        category == IF chat = LinkChat THEN "link" ELSE "archive"
    IN  IF ~shown THEN {}
        ELSE {Hash(CommandCallback(category, a, d)) :
                  a \in {"create", "delete"},
                  d \in {ToString(rc) : rc \in 1..Len(remote_chat)}
                        \cup {EndpointStr(BotEndpoint)}}
             \cup {Hash(CommandCallback(category, "cancel", ""))}

\* handle_message: Update::NewMessage whose first entity is a bot command
TgCommand(chat, sender, cmd) ==
    /\ Len(tasks) < MaxUpdates
    /\ loops.updates = "running"
    /\ tasks' = Append(tasks, [NewTask(TgUpdate("NewMessage", chat, sender, cmd,
                                                tg_next, NoHeader))
                                 EXCEPT !.target = [chat |-> chat, reply_to |-> 0]])
    /\ tg_next' = tg_next + 1
    /\ UNCHANGED <<remote_id_lock, tg_id_lock, remote_chat, remote_chat_cache,
                   message, link, archive, topic, tg_log, remote_log, uuid_next>>
    /\ UNCHANGED <<apiVars, rateVars, extVars>>

\* handle_message: Update::CallbackQuery, a press of a button of the chat
TgCallbackQuery(chat, sender, token) ==
    /\ Len(tasks) < MaxUpdates
    /\ loops.updates = "running"
    /\ token \in Buttons(chat)
    /\ tasks' = Append(tasks, [NewTask(TgUpdate("CallbackQuery", chat, sender,
                                                token, 0, NoHeader))
                                 EXCEPT !.target = [chat |-> chat, reply_to |-> 0]])
    /\ UNCHANGED <<remote_id_lock, tg_id_lock, remote_chat, remote_chat_cache,
                   message, link, archive, topic, tg_log, tg_next, remote_log,
                   uuid_next>>
    /\ UNCHANGED <<apiVars, rateVars, extVars>>

\* process_command under the chat's lock: check_sender, then "/link" in a
\* regular group and "/archive" in a forum list their buttons; anything else
\* is answered with a notice
ProcessCommand(t, tg_ok) ==
    /\ tasks[t].pc = "locked"
    /\ tasks[t].ev.update = "NewMessage"
    /\ tasks[t].ev.data # ""
    /\ Acquired(tg_id_lock, tasks[t].ev.kind, t)
    /\ LET m == tasks[t].ev
           links == m.data = "/link" /\ m.kind = LinkChat
           archives == m.data = "/archive" /\ m.kind = ArchiveChat
           menu == archives \/ (links /\ Len(remote_chat) > 0)
       IN  IF ~check_sender(AdminId, m)
           THEN /\ tasks' = Finish(tasks, t, "ignored")
                /\ UNCHANGED <<callback_cache, tg_log, tg_next>>
           ELSE /\ callback_cache' =
                       IF links
                       THEN put_callbacks(callback_cache, list_link(link, remote_chat))
                       ELSE IF archives
                            THEN put_callbacks(callback_cache,
                                               list_archive(archive, remote_chat))
                            ELSE callback_cache
                /\ IF tg_ok
                   \* message.respond(..): a message that replies to nothing
                   THEN /\ tg_log' = Append(tg_log,
                                [chat |-> m.kind, id |-> tg_next, reply_to |-> 0,
                                 kind |-> IF menu THEN "menu" ELSE "notice",
                                 text |-> "",
                                 buttons |->
                                     {Hash(cb) : cb \in
                                         IF links THEN list_link(link, remote_chat)
                                         ELSE IF archives
                                              THEN list_archive(archive, remote_chat)
                                              ELSE {}},
                                 task |-> t, remote_chat_id |-> 0,
                                 remote_msg_id |-> ""])
                        /\ tg_next' = tg_next + 1
                        /\ tasks' = Finish(tasks, t, "answered")
                   ELSE /\ tasks' = Finish(tasks, t, "failed")
                        /\ UNCHANGED <<tg_log, tg_next>>
    /\ tg_id_lock' = unlock(tg_id_lock, tasks[t].ev.kind, t)
    /\ UNCHANGED <<remote_id_lock, remote_chat, remote_chat_cache, message, link,
                   archive, topic, remote_log, uuid_next>>
    /\ UNCHANGED <<apiVars, rateVars, loops, shutdown, chatVars, indexVars, eval>>

\* process_callback under the chat's lock: load_message, get_callback, the
\* handler of the callback's category and action, then the menu is listed
\* again in the edited message
ProcessCallback(t, load_ok) ==
    /\ tasks[t].pc = "locked"
    /\ tasks[t].ev.update = "CallbackQuery"
    /\ Acquired(tg_id_lock, tasks[t].ev.kind, t)
    /\ LET m == tasks[t].ev
           got == get_callback(callback_cache, m.data)
           cb == got.value.val
           is(category, action) ==
               got.value.some /\ cb.category = category /\ cb.action = action
           ids == IF got.value.some THEN ParseId(cb.data, Len(remote_chat)) ELSE {}
           ep == IF got.value.some THEN ParseEndpoint(cb.data) ELSE None
           found == IF ids = {} THEN {}
                    ELSE find_link_by_remote(link, CHOOSE i \in ids : TRUE)
           as == IF ep.some THEN find_archive_by_endpoint(archive, ep.val) ELSE {}
           link1 == IF is("link", "create") /\ ids # {}
                    THEN create_link(link, m.kind, CHOOSE i \in ids : TRUE)
                    ELSE IF is("link", "delete") /\ found # {}
                         THEN delete_link(link, CHOOSE l \in found : TRUE)
                         ELSE link
           archive1 == IF is("archive", "create") /\ ep.some
                       THEN create_archive(archive, ep.val, m.kind)
                       ELSE IF is("archive", "delete") THEN archive \ as
                            ELSE archive
           topic1 == IF is("archive", "delete")
                     THEN {tp \in topic : tp.archive \notin as}
                     ELSE topic
       IN  IF ~load_ok
           THEN /\ tasks' = Finish(tasks, t, "failed")
                /\ UNCHANGED <<callback_cache, link, archive, topic>>
           ELSE /\ tasks' = Finish(tasks, t, IF got.value.some THEN "handled"
                                            ELSE "no_token")
                /\ link' = link1
                /\ archive' = archive1
                /\ topic' = topic1
                /\ callback_cache' =
                       IF is("link", "create") \/ is("link", "delete")
                       THEN put_callbacks(got.cache, list_link(link1, remote_chat))
                       ELSE IF is("archive", "create") \/ is("archive", "delete")
                            THEN put_callbacks(got.cache,
                                               list_archive(archive1, remote_chat))
                            ELSE got.cache
    /\ tg_id_lock' = unlock(tg_id_lock, tasks[t].ev.kind, t)
    /\ UNCHANGED <<remote_id_lock, remote_chat, remote_chat_cache, message,
                   tg_log, tg_next, remote_log, uuid_next>>
    /\ UNCHANGED <<apiVars, rateVars, loops, shutdown, chatVars, indexVars, eval>>

(***************************************************************************)
(* Specifications of the Telegram pylon                                    *)
(***************************************************************************)
InitBridge ==
    /\ bearer = None
    /\ InitApiVars
    /\ InitBridgeVars
    /\ InitRateVars
    /\ InitExtVars
    /\ eval = NoEval

\* the event pump with redelivered and reordered messages of one chat
PumpEvents == {PrivateMessage("m1", 1), PrivateMessage("m2", 2), SentMessage("m1", 1)}

NextPump ==
    \/ \E e \in PumpEvents : Pump(e)
    \/ \E t \in 1..Len(tasks) : TaskLock(t)
    \/ \E t \in 1..Len(tasks), api_ok, tg_ok \in BOOLEAN :
           ProcessOnebotMessage(t, api_ok, tg_ok, TRUE)
    \/ \E t \in 1..Len(tasks), tg_ok \in BOOLEAN : SendTelegram(t, tg_ok)

SpecPump == InitBridge /\ [][NextPump]_vars

\* relaying in both directions while links and archives come and go
RelayEvents == {GroupMessage("m1", 2)}

NextRelay ==
    \/ \E e \in RelayEvents : Pump(e)
    \/ \E t \in 1..Len(tasks) : TaskLock(t)
    \/ \E t \in 1..Len(tasks), api_ok, tg_ok \in BOOLEAN :
           ProcessOnebotMessage(t, api_ok, tg_ok, TRUE)
    \/ \E t \in 1..Len(tasks), tg_ok \in BOOLEAN : SendTelegram(t, tg_ok)
    \/ \E chat \in {AdminChat, LinkChat, ArchiveChat} :
           \E hdr \in ReplyHeaders(chat) : TgNewMessage(chat, AdminId, hdr)
    \/ \E t \in 1..Len(tasks) : TgTaskLock(t)
    \/ \E t \in 1..Len(tasks), tg_ok \in BOOLEAN : ProcessMessage(t, tg_ok)
    \/ \E t \in 1..Len(tasks), api_ok, tg_ok \in BOOLEAN : ConvertAndSend(t, api_ok, tg_ok)
    \/ \E t \in 1..Len(tasks), in_time, tg_ok \in BOOLEAN :
           SendMsgReturns(t, in_time, tg_ok)
    \/ \E rc \in 1..Len(remote_chat) : CreateLink(rc)
    \/ \E l \in link : DeleteLink(l)
    \/ CreateArchive
    \/ \E a \in archive : DeleteArchive(a)

SpecRelay == InitBridge /\ [][NextRelay]_vars

\* recall notices for mapped and unmapped messages
RecallEvents ==
    {GroupMessage("m1", 1), GroupRecall("m1"), GroupRecall("m2"),
     FriendRecall("42", "m1"), FriendRecall("10001", "m1")}

NextRecall ==
    \/ \E e \in RecallEvents : Pump(e)
    \/ \E t \in 1..Len(tasks) : TaskLock(t)
    \/ \E t \in 1..Len(tasks), api_ok, tg_ok \in BOOLEAN :
           ProcessOnebotMessage(t, api_ok, tg_ok, TRUE)
    \/ \E t \in 1..Len(tasks), tg_ok \in BOOLEAN : SendTelegram(t, tg_ok)
    \/ \E t \in 1..Len(tasks), api_ok \in BOOLEAN, fail \in RecallFailures :
           ProcessOnebotNotice(t, api_ok, fail)
    \/ \E rc \in 1..Len(remote_chat) : CreateLink(rc)
    \/ \E l \in link : DeleteLink(l)

SpecRecall == InitBridge /\ [][NextRecall]_vars

\* the chats of the friend and group lists the connect handler walks through
KnownChats == {ChatKey("Private", "42"), ChatKey("Group", "g1")}

\* the admin's messages while two remote chats are known and the link of the
\* group chat is moved from one to the other
NextOutbound ==
    \/ \E key \in KnownChats : UpdateRemoteChat(key)
    \/ Pump(GroupMessage("m1", 1))
    \/ \E t \in 1..Len(tasks) : TaskLock(t)
    \/ \E t \in 1..Len(tasks), tg_ok \in BOOLEAN : ProcessOnebotMessage(t, TRUE, tg_ok, TRUE)
    \/ \E t \in 1..Len(tasks), tg_ok \in BOOLEAN : SendTelegram(t, tg_ok)
    \/ \E chat \in {AdminChat, LinkChat, ArchiveChat} :
           \E hdr \in ReplyHeaders(chat) : TgNewMessage(chat, AdminId, hdr)
    \/ \E t \in 1..Len(tasks) : TgTaskLock(t)
    \/ \E t \in 1..Len(tasks), tg_ok \in BOOLEAN : ProcessMessage(t, tg_ok)
    \/ \E t \in 1..Len(tasks), api_ok, tg_ok \in BOOLEAN : ConvertAndSend(t, api_ok, tg_ok)
    \/ \E t \in 1..Len(tasks), in_time, tg_ok \in BOOLEAN :
           SendMsgReturns(t, in_time, tg_ok)
    \/ \E rc \in 1..Len(remote_chat) : CreateLink(rc)
    \/ \E l \in link : DeleteLink(l)
    \/ CreateArchive
    \/ \E a \in archive : DeleteArchive(a)

SpecOutbound == InitBridge /\ [][NextOutbound]_vars

\* commands and button presses of the admin and of another member of the
\* group chats, and that member's plain messages
NextCommand ==
    \/ UpdateRemoteChat(ChatKey("Group", "g1"))
    \/ \E c \in {<<LinkChat, "/link">>, <<ArchiveChat, "/archive">>,
                  <<ArchiveChat, "/link">>},
          sender \in {AdminId, OtherId} : TgCommand(c[1], sender, c[2])
    \/ \E chat \in {LinkChat, ArchiveChat}, sender \in {AdminId, OtherId} :
           \E token \in Buttons(chat) : TgCallbackQuery(chat, sender, token)
    \/ TgNewMessage(LinkChat, OtherId, NoHeader)
    \/ \E t \in 1..Len(tasks) : TgTaskLock(t)
    \/ \E t \in 1..Len(tasks), tg_ok \in BOOLEAN : ProcessCommand(t, tg_ok)
    \/ \E t \in 1..Len(tasks), load_ok \in BOOLEAN : ProcessCallback(t, load_ok)
    \/ \E t \in 1..Len(tasks) : ProcessMessage(t, TRUE)

SpecCommand == InitBridge /\ [][NextCommand]_vars

\* well-formed and malformed events: a group message without group_id, a
\* private message with an At segment
MalformedEvents ==
    {GroupMessage("m1", 1), [GroupMessage("m2", 1) EXCEPT !.group_id = ""],
     [PrivateMessage("m3", 1) EXCEPT !.at = TRUE]}

NextMalformed ==
    \/ \E e \in MalformedEvents : Pump(e)
    \/ \E t \in 1..Len(tasks) : TaskLock(t)
    \/ \E t \in 1..Len(tasks), api_ok, tg_ok \in BOOLEAN :
           ProcessOnebotMessage(t, api_ok, tg_ok, TRUE)
    \/ \E t \in 1..Len(tasks), tg_ok \in BOOLEAN : SendTelegram(t, tg_ok)

SpecMalformed == InitBridge /\ [][NextMalformed]_vars

(***************************************************************************)
(* Claims about the Telegram pylon                                         *)
(***************************************************************************)
\* C1 (as claimed): of two events with the same (endpoint, chat_type,
\* target_id) key, the one the pump dequeued first (the lower task index) has
\* all its Telegram messages sent before any message of the other.
C1_SendsInDequeueOrder ==
    \A i, j \in 1..Len(tg_log) :
        (/\ i < j
         /\ tg_log[i].kind = "relay"
         /\ tg_log[j].kind = "relay"
         /\ tasks[tg_log[i].task].key = tasks[tg_log[j].task].key)
        => tg_log[i].task <= tg_log[j].task

C7_RoutingPriority ==
    [][\A t \in 1..Len(tasks) :
         /\ (tasks[t].pc = "locked" /\ tasks'[t].pc = "sending") =>
              LET rc == tasks'[t].rc
                  ls == {l \in link : l.remote_chat_id = rc}
                  ars == {a \in archive : a.endpoint = tasks[t].key.endpoint}
                  tg == tasks'[t].target
              IN  IF ls # {}
                  THEN (\E l \in ls : tg.chat = l.tg_chat_id) /\ tg.reply_to = 0
                  ELSE IF ars # {}
                       THEN /\ \E a \in ars : tg.chat = a.tg_chat_id
                            /\ \E tp \in topic' : /\ tp.remote_chat_id = rc
                                                  /\ tp.tg_topic_id = tg.reply_to
                       ELSE tg.chat = AdminChat /\ tg.reply_to = 0
         /\ (tasks[t].pc = "sending" /\ tasks'[t].res = "sent") =>
              \A i \in (Len(tg_log) + 1)..Len(tg_log') :
                  /\ tg_log'[i].chat = tasks[t].target.chat
                  /\ tg_log'[i].reply_to = tasks[t].target.reply_to]_vars

\* C7 witness: a message was sent to the linked chat while an archive existed.
C7_Witness ==
    \E t \in 1..Len(tasks) :
        /\ tasks[t].res = "sent"
        /\ tasks[t].ev.post_type = "message"
        /\ tasks[t].target.chat = LinkChat
        /\ link # {}
        /\ archive # {}

RecallHandled(t) ==
    /\ tasks[t].ev.post_type = "notice"
    /\ tasks[t].pc = "locked"
    /\ tasks'[t].pc = "done"

\* the rows mapping the message a recall notice names
Mapping(t) ==
    {r \in message : /\ r.remote_chat_id = RemoteChatId(remote_chat, tasks[t].key)
                     /\ r.remote_msg_id = tasks[t].ev.message_id}

FromOtherUser(e) == ~(e.kind = "friend_recall" /\ e.self_id = e.user_id)

\* C9 (as claimed): a recall notice from another user for a mapped message
\* either changes neither the message table nor Telegram, or turns the
\* original row to Recalled and sends one reply under the original Telegram
\* message, persisted as a Sent row with a fresh "fake:" remote id.
C9_RecallBothOrNeither ==
    [][\A t \in 1..Len(tasks) :
         (RecallHandled(t) /\ FromOtherUser(tasks[t].ev) /\ Mapping(t) # {}) =>
           \/ message' = message /\ tg_log' = tg_log
           \/ \E r \in Mapping(t) :
                /\ [r EXCEPT !.delivery_status = "Recalled"] \in message'
                /\ Len(tg_log') = Len(tg_log) + 1
                /\ LET m == tg_log'[Len(tg_log')]
                   IN  /\ m.chat = r.tg_chat_id
                       /\ m.reply_to = r.tg_msg_id
                       /\ \E q \in message' \ message :
                            /\ q.tg_chat_id = m.chat
                            /\ q.tg_msg_id = m.id
                            /\ q.remote_chat_id = r.remote_chat_id
                            /\ q.remote_msg_id = "fake:" \o ToString(uuid_next)
                            /\ q.delivery_status = "Sent"]_vars

\* C10 (as claimed): a recall notice for a message without mapping changes no
\* table and sends nothing, whether or not its remote chat was known.
C10_UnmappedRecallChangesNothing ==
    [][\A t \in 1..Len(tasks) :
         (RecallHandled(t) /\ Mapping(t) = {}) =>
           UNCHANGED <<remote_chat, message, link, archive, topic, tg_log>>]_vars

\* C10 (amended): a recall notice for a message without mapping changes no
\* message, link, archive or topic row and sends nothing; the only write it
\* can make is the insert of the remote_chat row of a chat not known before.
C10_UnmappedRecallOnlyLearnsChat ==
    [][\A t \in 1..Len(tasks) :
         (RecallHandled(t) /\ Mapping(t) = {}) =>
           /\ UNCHANGED <<message, link, archive, topic, tg_log>>
           /\ \/ remote_chat' = remote_chat
              \/ /\ RemoteChatId(remote_chat, tasks[t].key) = 0
                 /\ remote_chat' = Append(remote_chat, tasks[t].key)]_vars

\* C10 witness: a recall for an unmapped message of a chat not known before
\* has been handled: nothing was sent, the chat's row is the only row.
C10_Witness ==
    \E t \in 1..Len(tasks) :
        /\ tasks[t].ev.post_type = "notice"
        /\ tasks[t].res = "nomap"
        /\ remote_chat = <<tasks[t].key>>
        /\ message = {}
        /\ tg_log = <<>>

\* the step in which the task of an admin's plain message leaves
\* process_message's resolution
Resolved(t) ==
    /\ tasks[t].ev.post_type = "telegram"
    /\ tasks[t].ev.update = "NewMessage"
    /\ tasks[t].ev.data = ""
    /\ tasks[t].ev.user_id = AdminId
    /\ tasks[t].pc = "locked"
    /\ tasks'[t].pc # "locked"

\* the candidates of the claim's priority list for message m: the remote chat
\* of the chat's Link; for a forum_topic header the remote chat of the Topic
\* (reply_to_top_id, else reply_to_msg_id) under the chat's Archive; for a
\* plain reply header the remote chat of the replied message's mapping
Candidates(m) ==
    LET by_link == {l.remote_chat_id : l \in {x \in link : x.tg_chat_id = m.kind}}
        top == IF m.reply_to_top_id # 0 THEN m.reply_to_top_id ELSE m.reply_to_msg_id
        by_topic == {tp.remote_chat_id :
                        tp \in {x \in topic : /\ x.tg_topic_id = top
                                               /\ x.archive \in archive
                                               /\ x.archive.tg_chat_id = m.kind}}
        by_reply == {r.remote_chat_id :
                        r \in {x \in message : /\ x.tg_chat_id = m.kind
                                                /\ x.tg_msg_id = m.reply_to_msg_id}}
    IN  IF by_link # {} THEN by_link
        ELSE IF m.forum_topic THEN by_topic
        ELSE IF m.reply_to_msg_id # 0 THEN by_reply
        ELSE {}

Step(t) == tasks'[t] # tasks[t]

\* C11: a step of the handler of a Telegram update that does not come from
\* the admin creates or deletes no Link or Archive, issues no send_msg and
\* consumes or issues no callback token.
C11_OnlyAdminActs ==
    [][\A t \in 1..Len(tasks) :
           (/\ tasks[t].ev.post_type = "telegram"
            /\ tasks[t].ev.user_id # AdminId
            /\ Step(t))
           => /\ link' = link
              /\ archive' = archive
              /\ topic' = topic
              /\ remote_log' = remote_log
              /\ callback_cache' = callback_cache]_vars

\* ---- C16 ----
\* the callbacks the handler of cb put again when it listed the menu
PutAgain(cb) ==
    IF cb.action \notin {"create", "delete"} THEN {}
    ELSE IF cb.category = "link" THEN list_link(link', remote_chat)
    ELSE list_archive(archive', remote_chat)

\* C16: a press whose token is in the map is handled with the stored callback
\* and the token is in the map afterwards only if the listing put an equal
\* callback again; a press whose token is not in the map gets nothing and
\* changes nothing.
C16_TokenSingleUse ==
    [][\A t \in 1..Len(tasks) :
           (/\ tasks[t].ev.update = "CallbackQuery"
            /\ tasks[t].pc = "locked"
            /\ Step(t)
            /\ tasks'[t].res # "failed")
           => LET token == tasks[t].ev.data
              IN  IF token \in DOMAIN callback_cache
                  THEN /\ tasks'[t].res = "handled"
                       /\ token \in DOMAIN callback_cache'
                              => callback_cache[token]
                                     \in PutAgain(callback_cache[token])
                  ELSE /\ tasks'[t].res = "no_token"
                       /\ callback_cache' = callback_cache
                       /\ link' = link
                       /\ archive' = archive]_vars

\* a token was pressed twice: the first press was handled, the second one
\* found nothing
C16_Witness ==
    \E t1, t2 \in 1..Len(tasks) :
        /\ t1 < t2
        /\ tasks[t1].ev.update = "CallbackQuery"
        /\ tasks[t2].ev.update = "CallbackQuery"
        /\ tasks[t1].ev.data = tasks[t2].ev.data
        /\ tasks[t1].res = "handled"
        /\ tasks[t2].res = "no_token"

\* ---- C12 ----
\* C12: no event ends the event pump or the API dispatcher.
C12_PumpsNeverDie ==
    /\ loops.pump # "panicked"
    /\ loops.dispatcher # "panicked"

(***************************************************************************)
(* Part IV: the per-chat Telegram rate limiter (bridge.rs)                 *)
(*                                                                         *)
(* Time is counted in replenish intervals of the quota: per_minute(n)      *)
(* allows a burst of n cells and replenishes one cell every 60/n seconds,  *)
(* so one minute is n ticks.                                               *)
(***************************************************************************)
TG_RATE_LIMIT == 20

MaxTick == 1       \* how far the clock runs
MaxSends == 21     \* Telegram messages delivered, over all chats
MaxAlbum == 2      \* messages in one album

\* Quota::per_minute(TG_RATE_LIMIT - 1): max_burst, and the minute in ticks
Burst == TG_RATE_LIMIT - 1

RateChats == {LinkChat}

\* the theoretical arrival time kept for the key; a key never seen starts one
\* interval after the first check
Tat(lim, chat, t0) == IF chat \in DOMAIN lim THEN lim[chat] ELSE t0 + 1

\* the cell is let through at t0 when t0 has reached tat - tau, tau = Burst intervals
KeyReady(lim, chat, t0) == t0 >= Tat(lim, chat, t0) - Burst

\* the state written when a cell is let through
NextTat(lim, chat, t0) ==
    (IF Tat(lim, chat, t0) > t0 THEN Tat(lim, chat, t0) ELSE t0) + 1

DeliveredAt(d, chat, t) == IF <<chat, t>> \in DOMAIN d THEN d[<<chat, t>>] ELSE 0

Deliver(d, chat, t, n) == MapPut(d, <<chat, t>>, DeliveredAt(d, chat, t) + n)

RECURSIVE DeliveredIn(_, _, _, _)
\* messages delivered to chat at the ticks from .. to
DeliveredIn(d, chat, from, to) ==
    IF from > to THEN 0
    ELSE DeliveredAt(d, chat, from) + DeliveredIn(d, chat, from + 1, to)

RECURSIVE TotalOver(_, _)
TotalOver(d, chats) ==
    IF chats = {} THEN 0
    ELSE LET c == CHOOSE x \in chats : TRUE
         IN  DeliveredIn(d, c, 0, MaxTick) + TotalOver(d, chats \ {c})

TotalDelivered(d) == TotalOver(d, RateChats)

Tick ==
    /\ now < MaxTick
    /\ now' = now + 1
    /\ UNCHANGED <<limiter, delivered>>
    /\ UNCHANGED <<apiVars, bridgeVars, extVars>>

\* Bridge::send_telegram_message: until_key_ready(&chat.id), then one message
SendTelegramMessage(chat) ==
    /\ TotalDelivered(delivered) + 1 <= MaxSends
    /\ KeyReady(limiter, chat, now)
    /\ limiter' = MapPut(limiter, chat, NextTat(limiter, chat, now))
    /\ delivered' = Deliver(delivered, chat, now, 1)
    /\ UNCHANGED now
    /\ UNCHANGED <<apiVars, bridgeVars, extVars>>

\* Bridge::send_telegram_album: until_key_ready(&chat.id), then n messages
SendTelegramAlbum(chat, n) ==
    /\ TotalDelivered(delivered) + n <= MaxSends
    /\ KeyReady(limiter, chat, now)
    /\ limiter' = MapPut(limiter, chat, NextTat(limiter, chat, now))
    /\ delivered' = Deliver(delivered, chat, now, n)
    /\ UNCHANGED now
    /\ UNCHANGED <<apiVars, bridgeVars, extVars>>

\* process_onebot_notice: the recall marker goes through
\* bot_client.send_message, not through the limiter
SendRecallMarker(chat) ==
    /\ TotalDelivered(delivered) + 1 <= MaxSends
    /\ delivered' = Deliver(delivered, chat, now, 1)
    /\ UNCHANGED <<now, limiter>>
    /\ UNCHANGED <<apiVars, bridgeVars, extVars>>

InitRate ==
    /\ bearer = None
    /\ InitApiVars
    /\ InitBridgeVars
    /\ InitRateVars
    /\ InitExtVars
    /\ eval = NoEval

NextRate ==
    \/ Tick
    \/ \E chat \in RateChats : SendTelegramMessage(chat)
    \/ \E chat \in RateChats, n \in 2..MaxAlbum : SendTelegramAlbum(chat, n)
    \/ \E chat \in RateChats : SendRecallMarker(chat)

SpecRate == InitRate /\ [][NextRate]_vars

\* C6 (as claimed): for every Telegram chat and every window of one minute
\* (Burst ticks, starting at any tick), the messages the bridge delivered to
\* the chat in the window number at most 19.
C6_AtMost19PerMinute ==
    \A chat \in RateChats, w \in 0..MaxTick :
        DeliveredIn(delivered, chat, w, w + Burst - 1) <= TG_RATE_LIMIT - 1

(***************************************************************************)
(* Part VI: stalled connections and shutdown (onebot_pylon.rs, main.rs)    *)
(***************************************************************************)
\* enough calls to fill the writer channel, block the dispatcher, fill the
\* API channel and leave one caller in api_sender.send
StallCalls == ChanCap + ApiChanCap + 2

\* the signal task: shutdown_tx.send(()) on ctrl-c or SIGTERM
Shutdown ==
    /\ ~shutdown
    /\ shutdown' = TRUE
    /\ UNCHANGED <<callback_cache, loops, chatVars, indexVars, eval>>
    /\ UNCHANGED <<apiVars, bridgeVars, rateVars>>

\* the accept loop's select!: shutdown_rx.recv() is ready, break
AcceptorExit ==
    /\ shutdown
    /\ loops.listener = "running"
    /\ loops' = [loops EXCEPT !.listener = "exited"]
    /\ UNCHANGED <<callback_cache, shutdown, chatVars, indexVars, eval>>
    /\ UNCHANGED <<apiVars, bridgeVars, rateVars>>

\* the dispatcher's select!: api_shutdown_rx.recv() is ready, break.  The
\* select! is reached only between two requests; the receiver is dropped with
\* the requests still in the channel, which closes their waiters
ApiHandlerExit ==
    /\ shutdown
    /\ loops.dispatcher = "running"
    /\ disp = 0
    /\ loops' = [loops EXCEPT !.dispatcher = "exited"]
    /\ calls' = [k \in 1..Len(calls) |->
                    IF InQueue(api_chan, k) /\ calls[k].st = "waiting"
                    THEN [calls[k] EXCEPT !.st = "err",
                                          !.res = [kind |-> "closed", echo |-> "",
                                                   status |-> "", conn |-> 0]]
                    ELSE calls[k]]
    /\ api_chan' = <<>>
    /\ UNCHANGED <<bearer, COUNTER, disp, endpoints_sender, response_pending,
                   conns, event_chan, frames_sent, last_hs>>
    /\ UNCHANGED <<callback_cache, shutdown, chatVars, indexVars, eval>>
    /\ UNCHANGED <<bridgeVars, rateVars>>

\* the event pump's while-let: event_receiver.recv() returns None once every
\* event_sender is dropped, the acceptor's and the one of each connection
PumpExit ==
    /\ loops.pump = "running"
    /\ loops.listener = "exited"
    /\ \A c \in 1..Len(conns) : conns[c].reader = "closed"
    /\ loops' = [loops EXCEPT !.pump = "exited"]
    /\ UNCHANGED <<callback_cache, shutdown, chatVars, indexVars, eval>>
    /\ UNCHANGED <<apiVars, bridgeVars, rateVars>>

\* the calls of the bridge have been made: every request is built and its
\* caller is at api_sender.send
InitStall ==
    /\ bearer = BearerOf(ApiToken)
    /\ COUNTER = StallCalls + 1
    /\ calls = [k \in 1..StallCalls |->
                   [endpoint |-> BotEndpoint, action |-> "send_msg",
                    echo |-> ToString(k), st |-> "built", res |-> NoRes]]
    /\ api_chan = <<>>
    /\ disp = 0
    /\ endpoints_sender = EmptyMap
    /\ response_pending = EmptyMap
    /\ conns = <<>>
    /\ event_chan = <<>>
    /\ frames_sent = 0
    /\ last_hs = [req |-> [auth |-> HAbsent, self_id |-> HAbsent, ua |-> HAbsent],
                  status |-> 0]
    /\ InitBridgeVars
    /\ InitRateVars
    /\ InitExtVars
    /\ eval = NoEval

\* the callers are interchangeable: they reach the send in the order of
\* their requests
CallInOrder(k) ==
    /\ \A j \in 1..(k - 1) : calls[j].st # "built"
    /\ CallApi(k)

NextStall ==
    \/ \E k \in 1..Len(calls) : CallInOrder(k)
    \/ \E k \in 1..Len(calls) : CallTimeout(k)
    \/ DispatchRecv
    \/ DispatchResume
    \/ Accept([auth |-> HText(<<"Bearer", "secret">>),
               self_id |-> HText(<<"10001">>), ua |-> HText(<<"LLOneBot", "/4.1">>)])
    \/ \E c \in 1..Len(conns) : Register(c)
    \/ \E c \in 1..Len(conns) : WriterStep(c)
    \/ Shutdown
    \/ AcceptorExit
    \/ ApiHandlerExit
    \/ PumpExit

SpecStall == InitStall /\ [][NextStall]_vars

\* what the runtime guarantees: a task that can run does run, and a timer
\* that is armed fires.  Nothing makes the remote side read its socket (the
\* writer may never take the next request), close the connection, connect,
\* or makes the operator send the signal
FairStall ==
    /\ SpecStall
    /\ \A k \in 1..StallCalls : WF_vars(CallInOrder(k)) /\ WF_vars(CallTimeout(k))
    /\ WF_vars(DispatchRecv)
    /\ WF_vars(DispatchResume)
    /\ \A c \in 1..MaxConns : WF_vars(c <= Len(conns) /\ Register(c))
    /\ WF_vars(AcceptorExit)
    /\ WF_vars(ApiHandlerExit)
    /\ WF_vars(PumpExit)

(***************************************************************************)
(* Claims about stalled connections and shutdown                           *)
(***************************************************************************)
\* ---- C13 ----
\* C13: every call_api invocation eventually resolves: with the response, an
\* error or the timeout.
C13_EveryCallResolves ==
    \A k \in 1..StallCalls : <>(calls[k].st \notin {"built", "waiting"})

\* ---- C17 ----
\* C17: after the shutdown signal the listener, the dispatcher, the event
\* pump and the update loop each eventually leave their loop.
C17_LoopsExit ==
    shutdown ~> (\A l \in DOMAIN loops : loops[l] = "exited")

(***************************************************************************)
(* Part VII: Bridge::get_remote_chat step by step (bridge.rs)              *)
(***************************************************************************)
MaxGrc == 2        \* get_remote_chat calls

\* a task calls get_remote_chat(endpoint, chat_type, target_id)
GrcCall(key) ==
    /\ Len(grc) < MaxGrc
    /\ grc' = Append(grc, [key |-> key, pc |-> "entry", res |-> ""])
    /\ UNCHANGED <<entry_lock, ctlVars, indexVars, eval>>
    /\ UNCHANGED <<apiVars, bridgeVars, rateVars>>

\* remote_chat_cache.entry(key): the entry is taken when no other call holds
\* it; Occupied returns the cached model, Vacant keeps the entry held
GrcEntry(i) ==
    /\ grc[i].pc = "entry"
    /\ grc[i].key \notin DOMAIN entry_lock
    /\ IF grc[i].key \in remote_chat_cache
       THEN /\ grc' = [grc EXCEPT ![i].pc = "done", ![i].res = "ok"]
            /\ UNCHANGED entry_lock
       ELSE /\ grc' = [grc EXCEPT ![i].pc = "find"]
            /\ entry_lock' = MapPut(entry_lock, grc[i].key, i)
    /\ UNCHANGED <<ctlVars, indexVars, eval>>
    /\ UNCHANGED <<apiVars, bridgeVars, rateVars>>

\* Entity::find()..one(&self.db).await: Some(model) is cached and returned,
\* None goes on to the remote API
GrcFind(i) ==
    /\ grc[i].pc = "find"
    /\ IF RemoteChatId(remote_chat, grc[i].key) # 0
       THEN /\ grc' = [grc EXCEPT ![i].pc = "done", ![i].res = "ok"]
            /\ remote_chat_cache' = remote_chat_cache \cup {grc[i].key}
            /\ entry_lock' = MapDel(entry_lock, grc[i].key)
       ELSE /\ grc' = [grc EXCEPT ![i].pc = "fetch"]
            /\ UNCHANGED <<remote_chat_cache, entry_lock>>
    /\ UNCHANGED <<tasks, remote_id_lock, tg_id_lock, remote_chat, message, link,
                   archive, topic, tg_log, tg_next, remote_log, uuid_next>>
    /\ UNCHANGED <<apiVars, rateVars, ctlVars, indexVars, eval>>

\* get_stranger_info / get_group_info .await?: an error drops the entry
GrcFetch(i, api_ok) ==
    /\ grc[i].pc = "fetch"
    /\ IF api_ok
       THEN /\ grc' = [grc EXCEPT ![i].pc = "insert"]
            /\ UNCHANGED entry_lock
       ELSE /\ grc' = [grc EXCEPT ![i].pc = "done", ![i].res = "api_err"]
            /\ entry_lock' = MapDel(entry_lock, grc[i].key)
    /\ UNCHANGED <<ctlVars, indexVars, eval>>
    /\ UNCHANGED <<apiVars, bridgeVars, rateVars>>

\* save_remote_private_chat / save_remote_group_chat .await?: a plain insert,
\* which fails on remote_chat_unq_chat when the row exists by now
GrcInsert(i) ==
    /\ grc[i].pc = "insert"
    /\ IF RemoteChatId(remote_chat, grc[i].key) # 0
       THEN /\ grc' = [grc EXCEPT ![i].pc = "done", ![i].res = "db_err"]
            /\ UNCHANGED <<remote_chat, remote_chat_cache>>
       ELSE /\ grc' = [grc EXCEPT ![i].pc = "done", ![i].res = "ok"]
            /\ remote_chat' = Append(remote_chat, grc[i].key)
            /\ remote_chat_cache' = remote_chat_cache \cup {grc[i].key}
    /\ entry_lock' = MapDel(entry_lock, grc[i].key)
    /\ UNCHANGED <<tasks, remote_id_lock, tg_id_lock, message, link, archive,
                   topic, tg_log, tg_next, remote_log, uuid_next>>
    /\ UNCHANGED <<apiVars, rateVars, ctlVars, indexVars, eval>>

\* handlers resolving remote chats while the connect handler upserts them
NextChat ==
    \/ \E key \in KnownChats : GrcCall(key)
    \/ \E i \in 1..Len(grc) : GrcEntry(i)
    \/ \E i \in 1..Len(grc) : GrcFind(i)
    \/ \E i \in 1..Len(grc), api_ok \in BOOLEAN : GrcFetch(i, api_ok)
    \/ \E i \in 1..Len(grc) : GrcInsert(i)
    \/ \E key \in KnownChats : UpdateRemoteChat(key)

SpecChat == InitBridge /\ [][NextChat]_vars

(***************************************************************************)
(* Claims about get_remote_chat                                            *)
(***************************************************************************)
\* ---- C14 ----
\* C14: a get_remote_chat call whose fetch succeeded returns the RemoteChat,
\* whatever it raced with, and the table holds one row per key.
C14_LostRaceNeverFails ==
    /\ \A i \in 1..Len(grc) : grc[i].res # "db_err"
    /\ \A a, b \in 1..Len(remote_chat) : remote_chat[a] = remote_chat[b] => a = b

\* ---- C15 ----
\* C15: at no suspension point does a task hold the routing-table mutex (the
\* dispatcher inside sender.send) or a cache-map entry.
C15_NoSharedLockAcrossAwait ==
    /\ disp = 0
    /\ DOMAIN entry_lock = {}

(***************************************************************************)
(* Part VIII: the index writer task (index_service.rs)                     *)
(***************************************************************************)
COMMIT_RATE == 100
COMMIT_TIME == 30

DocCap == 1        \* capacity of the document channel in the model
MaxCommits == 2    \* IndexService::commit calls
TickSecs == 15     \* seconds the clock advances in one step
MaxClock == 45     \* how far the clock runs

\* a step in which the writer commits what it holds without acknowledging first
FlushOrder_ack_first == <<"ack", "commit", "break">>

\* the commit_receiver branch of the writer's select!, statement by statement:
\* index_writer.commit(), sender.send(()), break
FlushOrder == <<"commit", "ack", "break">>

\* time passes
IndexTick ==
    /\ clock < MaxClock
    /\ clock' = clock + TickSecs
    /\ UNCHANGED <<added_docs, commit_timestamp, doc_chan, commit_chan, writer,
                   commit_calls, index_log>>
    /\ UNCHANGED <<apiVars, bridgeVars, rateVars, ctlVars, chatVars, eval>>

\* index_message: doc_sender.send(document).await
IndexMessage ==
    /\ writer.pc # "exited"
    /\ doc_chan < DocCap
    /\ doc_chan' = doc_chan + 1
    /\ UNCHANGED <<added_docs, commit_timestamp, clock, commit_chan, writer,
                   commit_calls, index_log>>
    /\ UNCHANGED <<apiVars, bridgeVars, rateVars, ctlVars, chatVars, eval>>

\* the doc_receiver branch: add_document, then the commit once a threshold is
\* passed
WriterDoc(add_ok) ==
    /\ writer.pc = "select"
    /\ doc_chan > 0
    /\ doc_chan' = doc_chan - 1
    /\ LET added == IF add_ok THEN added_docs + 1 ELSE added_docs
       IN  IF (added > COMMIT_RATE) \/ (clock - commit_timestamp > COMMIT_TIME)
           THEN /\ added_docs' = 0
                /\ commit_timestamp' = clock
           ELSE /\ added_docs' = added
                /\ UNCHANGED commit_timestamp
    /\ commit_calls' = [i \in 1..Len(commit_calls) |->
                           [commit_calls[i] EXCEPT
                               !.queued = IF @ > 0 THEN @ - 1 ELSE 0]]
    /\ UNCHANGED <<clock, commit_chan, writer, index_log>>
    /\ UNCHANGED <<apiVars, bridgeVars, rateVars, ctlVars, chatVars, eval>>

\* IndexService::commit is called: the oneshot is created
CommitCall ==
    /\ Len(commit_calls) < MaxCommits
    /\ commit_calls' = Append(commit_calls,
                               [st |-> "send", acked |-> FALSE, queued |-> 0])
    /\ UNCHANGED <<added_docs, commit_timestamp, clock, doc_chan, commit_chan,
                   writer, index_log>>
    /\ UNCHANGED <<apiVars, bridgeVars, rateVars, ctlVars, chatVars, eval>>

\* commit_sender.send(sender).await?: an error once the writer has dropped
\* the receiver; queued counts the documents sent before the request that
\* the writer has not received yet
CommitSend(i) ==
    /\ commit_calls[i].st = "send"
    /\ IF writer.pc = "exited"
       THEN /\ commit_calls' = [commit_calls EXCEPT ![i].st = "err"]
            /\ UNCHANGED commit_chan
       ELSE /\ commit_calls' = [commit_calls EXCEPT ![i].st = "waiting",
                                                    ![i].queued = doc_chan]
            /\ commit_chan' = Append(commit_chan, i)
    /\ UNCHANGED <<added_docs, commit_timestamp, clock, doc_chan, writer, index_log>>
    /\ UNCHANGED <<apiVars, bridgeVars, rateVars, ctlVars, chatVars, eval>>

\* the commit_receiver branch is taken with the oldest request
WriterFlush ==
    /\ writer.pc = "select"
    /\ commit_chan # <<>>
    /\ writer' = [pc |-> "flush", step |-> 1, sender |-> Head(commit_chan)]
    /\ commit_chan' = Tail(commit_chan)
    /\ UNCHANGED <<added_docs, commit_timestamp, clock, doc_chan, commit_calls,
                   index_log>>
    /\ UNCHANGED <<apiVars, bridgeVars, rateVars, ctlVars, chatVars, eval>>

\* the next statement of the branch; break ends the task, which drops both
\* receivers and with them the requests still queued
WriterFlushStep ==
    /\ writer.pc = "flush"
    /\ LET op == FlushOrder[writer.step]
       IN  /\ index_log' = Append(index_log, op)
           /\ CASE op = "commit" ->
                     /\ writer' = [writer EXCEPT !.step = @ + 1]
                     /\ UNCHANGED <<commit_calls, commit_chan, doc_chan>>
                [] op = "ack" ->
                     /\ writer' = [writer EXCEPT !.step = @ + 1]
                     /\ commit_calls' = [commit_calls EXCEPT ![writer.sender].acked = TRUE]
                     /\ UNCHANGED <<commit_chan, doc_chan>>
                [] OTHER ->
                     /\ writer' = [pc |-> "exited", step |-> 0, sender |-> 0]
                     /\ commit_calls' = [i \in 1..Len(commit_calls) |->
                                            IF InQueue(commit_chan, i)
                                            THEN [commit_calls[i] EXCEPT !.st = "err"]
                                            ELSE commit_calls[i]]
                     /\ commit_chan' = <<>>
                     /\ doc_chan' = 0
    /\ UNCHANGED <<added_docs, commit_timestamp, clock>>
    /\ UNCHANGED <<apiVars, bridgeVars, rateVars, ctlVars, chatVars, eval>>

\* receiver.await? returns: commit() returns Ok
CommitReturn(i) ==
    /\ commit_calls[i].st = "waiting"
    /\ commit_calls[i].acked
    /\ commit_calls' = [commit_calls EXCEPT ![i].st = "returned"]
    /\ index_log' = Append(index_log, "return")
    /\ UNCHANGED <<added_docs, commit_timestamp, clock, doc_chan, commit_chan, writer>>
    /\ UNCHANGED <<apiVars, bridgeVars, rateVars, ctlVars, chatVars, eval>>

NextIndex ==
    \/ IndexTick
    \/ IndexMessage
    \/ \E add_ok \in BOOLEAN : WriterDoc(add_ok)
    \/ CommitCall
    \/ \E i \in 1..Len(commit_calls) : CommitSend(i)
    \/ WriterFlush
    \/ WriterFlushStep
    \/ \E i \in 1..Len(commit_calls) : CommitReturn(i)

SpecIndex == InitBridge /\ [][NextIndex]_vars

(***************************************************************************)
(* Claims about the index writer                                           *)
(***************************************************************************)
\* ---- C18 ----
\* C18: whenever the writer waits at its select!, fewer than COMMIT_RATE
\* documents are uncommitted, and if any is, less than COMMIT_TIME has passed
\* since the last commit.
C18_CommitsAtThreshold ==
    writer.pc = "select"
    => /\ added_docs < COMMIT_RATE
       /\ added_docs > 0 => clock - commit_timestamp < COMMIT_TIME

\* ---- C19 ----
\* the events of index_log before position i
Before(i, op) == \E j \in 1..(i - 1) : index_log[j] = op

MaxList == 1       \* elements of a friend, group or member list

\* The JSON value of a response's "data": null, an object (its keys, each
\* holding a value of the documented type) or an array of such objects.
Json(shape, keys, items) == [shape |-> shape, keys |-> keys, items |-> items]

\* #[serde(untagged)] enum ResponseData: the variants in declaration order
ResponseData ==
    <<"None", "MessageId", "MemberInfo", "UserInfo", "GroupInfo",
      "GroupMemberList", "FriendList", "GroupList", "FileInfo", "ForwardMessage">>

\* the fields of each struct that are not Option: a missing one fails the struct
Required ==
    [MessageId |-> {"message_id"},
     MemberInfo |-> {"user_id", "group_id", "nickname", "role"},
     UserInfo |-> {"user_id", "nickname"},
     GroupInfo |-> {"group_id", "group_name"},
     FileInfo |-> {"file", "file_name"},
     ForwardMessage |-> {"messages"}]

\* whether variant v deserializes from j: a unit variant from null, a struct
\* from an object holding its required fields (unknown fields are ignored), a
\* Vec from an array all of whose elements deserialize
Deserializes(v, j) ==
    LET elem == [GroupMemberList |-> "MemberInfo", FriendList |-> "UserInfo",
                 GroupList |-> "GroupInfo"]
    IN  CASE v = "None" -> j.shape = "null"
          [] v \in DOMAIN elem ->
                /\ j.shape = "array"
                /\ \A i \in 1..Len(j.items) : Required[elem[v]] \subseteq j.items[i]
          [] OTHER -> j.shape = "object" /\ Required[v] \subseteq j.keys

\* untagged: the first variant that deserializes; none: the frame is no Response
DecodeData(j) ==
    LET ok == {i \in 1..Len(ResponseData) : Deserializes(ResponseData[i], j)}
    IN  IF ok = {} THEN None
        ELSE Some(ResponseData[CHOOSE i \in ok : \A k \in ok : i <= k])

\* onebot_api!(func_name, enum_variant, ..): the variant each wrapper expects
VariantOf ==
    [get_login_info |-> "UserInfo", get_stranger_info |-> "UserInfo",
     get_group_info |-> "GroupInfo", get_friend_list |-> "FriendList",
     get_group_list |-> "GroupList", get_group_member_list |-> "GroupMemberList",
     get_group_member_info |-> "MemberInfo", get_record |-> "FileInfo",
     get_image |-> "FileInfo", get_file |-> "FileInfo", send_msg |-> "MessageId"]

\* the body the macro expands to; result is what call_api returned
onebot_api(func_name, result) ==
    IF ~result.ok THEN [ok |-> FALSE, err |-> "call", retcode |-> 0, data |-> ""]
    ELSE IF result.status # "ok"
         THEN [ok |-> FALSE, err |-> "retcode", retcode |-> result.retcode, data |-> ""]
         ELSE IF result.data = VariantOf[func_name]
              THEN [ok |-> TRUE, err |-> "", retcode |-> 0, data |-> result.data]
              ELSE [ok |-> FALSE, err |-> "invalid return data", retcode |-> 0, data |-> ""]

\* the payloads the OneBot v11 document gives each action, lists up to MaxList long
WellFormed(func_name) ==
    LET user == {"user_id", "nickname", "remark"}
        group == {"group_id", "group_name", "member_count"}
        member == {"group_id", "user_id", "nickname", "card", "role"}
        ListOf(e) == {Json("array", {}, [i \in 1..n |-> e]) : n \in 0..MaxList}
    IN  CASE func_name \in {"get_login_info", "get_stranger_info"} ->
                {Json("object", {"user_id", "nickname"}, <<>>), Json("object", user, <<>>)}
          [] func_name = "get_group_info" -> {Json("object", group, <<>>)}
          [] func_name = "get_friend_list" -> ListOf(user)
          [] func_name = "get_group_list" -> ListOf(group)
          [] func_name = "get_group_member_list" -> ListOf(member)
          [] func_name = "get_group_member_info" -> {Json("object", member, <<>>)}
          [] func_name = "send_msg" -> {Json("object", {"message_id"}, <<>>)}
          [] OTHER -> {Json("object", {"file", "file_name", "url"}, <<>>)}

\* a wrapper is called and the remote side answers with some status and payload
InitTyped ==
    /\ bearer = None
    /\ InitApiVars
    /\ InitBridgeVars
    /\ InitRateVars
    /\ InitExtVars
    /\ \E f \in DOMAIN VariantOf, st \in {"ok", "failed", "async"}, rc \in {0, 1404},
          j \in UNION {WellFormed(g) : g \in DOMAIN VariantOf}
               \cup {Json("null", {}, <<>>), Json("object", {"foo"}, <<>>)} :
          eval = [fn |-> "onebot_api",
                  arg |-> [func_name |-> f, status |-> st, retcode |-> rc, payload |-> j],
                  out |-> <<>>]

\* handle_payload decodes the frame, call_api hands the Response (or, for a
\* frame that is no Response, its timeout) to the wrapper
OnebotApi ==
    /\ eval.fn = "onebot_api"
    /\ eval.out = <<>>
    /\ LET d == DecodeData(eval.arg.payload)
           result == IF d.some
                     THEN [ok |-> TRUE, status |-> eval.arg.status,
                           retcode |-> eval.arg.retcode, data |-> d.val]
                     ELSE [ok |-> FALSE, status |-> "", retcode |-> 0, data |-> ""]
       IN  eval' = [eval EXCEPT !.out = <<onebot_api(eval.arg.func_name, result)>>]
    /\ UNCHANGED <<apiVars, bridgeVars, rateVars, ctlVars, chatVars, indexVars>>

NextTyped == OnebotApi

SpecTyped == InitTyped /\ [][NextTyped]_vars

\* C21: a wrapper returns typed data exactly when the status is "ok" and the
\* decoded variant is the action's, which every well-formed payload of the
\* action decodes to (an empty list included); another status gives an error
\* carrying the retcode; another variant gives an error.
C21_TypedWrapper ==
    (eval.fn = "onebot_api" /\ eval.out # <<>>) =>
        LET a == eval.arg
            r == eval.out[1]
            d == DecodeData(a.payload)
            matches == d = Some(VariantOf[a.func_name])
        IN  /\ a.payload \in WellFormed(a.func_name) => matches
            /\ r.ok <=> (a.status = "ok" /\ matches)
            /\ (d.some /\ a.status # "ok") => (r.err = "retcode" /\ r.retcode = a.retcode)
            /\ (a.status = "ok" /\ ~matches) => ~r.ok


(***************************************************************************)
(* Part IX: Endpoint strings (common.rs).  A string is the sequence of its *)
(* characters.                                                             *)
(***************************************************************************)
MaxIdLen == 2      \* characters of an endpoint id
MaxAttempts == 2   \* how often one string is parsed

\* impl fmt::Display for Platform; impl FromStr for Platform matches the same literals
PlatformDisplay ==
    [Telegram |-> <<"t", "e", "l", "e", "g", "r", "a", "m">>,
     QQ |-> <<"q", "q">>,
     WeChat |-> <<"w", "e", "c", "h", "a", "t">>]

PlatformFromStr(s) ==
    LET m == {p \in DOMAIN PlatformDisplay : PlatformDisplay[p] = s}
    IN  IF m = {} THEN [ok |-> FALSE, val |-> <<"invalid platform", s>>]
        ELSE [ok |-> TRUE, val |-> CHOOSE p \in m : TRUE]

\* impl fmt::Display for Endpoint
EndpointDisplay(e) == PlatformDisplay[e.platform] \o <<":">> \o e.id

\* str::rsplit_once: the parts before and after the last occurrence of ch
rsplit_once(s, ch) ==
    LET at == {i \in 1..Len(s) : s[i] = ch}
    IN  IF at = {} THEN None
        ELSE LET i == CHOOSE i \in at : \A k \in at : k <= i
             IN  Some(<<SubSeq(s, 1, i - 1), SubSeq(s, i + 1, Len(s))>>)

\* str::split_once: the parts before and after the first occurrence of ch
split_once(s, ch) ==
    LET at == {i \in 1..Len(s) : s[i] = ch}
    IN  IF at = {} THEN None
        ELSE LET i == CHOOSE i \in at : \A k \in at : i <= k
             IN  Some(<<SubSeq(s, 1, i - 1), SubSeq(s, i + 1, Len(s))>>)

\* impl FromStr for Endpoint
EndpointFromStr(s) ==
    LET parts == split_once(s, ":")
    IN  IF ~parts.some THEN [ok |-> FALSE, val |-> <<"invalid endpoint format", s>>]
        ELSE LET platform == PlatformFromStr(parts.val[1])
             IN  IF ~platform.ok THEN [ok |-> FALSE, val |-> <<"invalid platform", s>>]
                 ELSE [ok |-> TRUE,
                       val |-> [platform |-> platform.val, id |-> parts.val[2]]]

\* the texts of up to n characters that ids and tails are drawn from
Texts(n) == UNION {[1..k -> {"1", ":"}] : k \in 0..n}

\* either an endpoint to be formatted and parsed back, or an arbitrary string
InitParse ==
    /\ bearer = None
    /\ InitApiVars
    /\ InitBridgeVars
    /\ InitRateVars
    /\ InitExtVars
    /\ \E a \in {[endpoint |-> Some([platform |-> p, id |-> i]), text |-> None] :
                     p \in DOMAIN PlatformDisplay, i \in Texts(MaxIdLen)}
              \cup {[endpoint |-> None, text |-> Some(h \o t)] :
                     h \in {<<>>, <<"q">>, <<"q", "q">>, <<"Q", "Q">>, <<"q", "q", "q">>},
                     t \in Texts(MaxIdLen)} :
          eval = [fn |-> "endpoint", arg |-> a, out |-> <<>>]

\* e.to_string()
ToString_ ==
    /\ eval.fn = "endpoint"
    /\ eval.arg.endpoint.some
    /\ ~eval.arg.text.some
    /\ eval' = [eval EXCEPT !.arg.text = Some(EndpointDisplay(eval.arg.endpoint.val))]
    /\ UNCHANGED <<apiVars, bridgeVars, rateVars, ctlVars, chatVars, indexVars>>

\* Endpoint::from_str(s), once more on every attempt
FromStr ==
    /\ eval.fn = "endpoint"
    /\ eval.arg.text.some
    /\ Len(eval.out) < MaxAttempts
    /\ eval' = [eval EXCEPT !.out = Append(@, EndpointFromStr(eval.arg.text.val))]
    /\ UNCHANGED <<apiVars, bridgeVars, rateVars, ctlVars, chatVars, indexVars>>

NextParse ==
    \/ ToString_
    \/ FromStr

SpecParse == InitParse /\ [][NextParse]_vars

\* the string begins with the name of a platform followed by ':'
HasPlatformPrefix(s) ==
    \E p \in DOMAIN PlatformDisplay :
        LET h == PlatformDisplay[p] \o <<":">>
        IN  Len(s) >= Len(h) /\ SubSeq(s, 1, Len(h)) = h

\* C22: parsing the string form of an endpoint gives the endpoint back, for
\* ids that are empty or contain ':' too; a string with no ':' or with no
\* platform name before its first ':' fails, with the same error every time.
C22_EndpointRoundTrip ==
    eval.fn = "endpoint" =>
        \A i \in 1..Len(eval.out) :
            /\ eval.arg.endpoint.some =>
                   (eval.out[i].ok /\ eval.out[i].val = eval.arg.endpoint.val)
            /\ ~HasPlatformPrefix(eval.arg.text.val) =>
                   (~eval.out[i].ok /\ eval.out[i] = eval.out[1])

\* an endpoint whose id contains ':' has been formatted and parsed back twice
C22_Witness ==
    /\ eval.fn = "endpoint"
    /\ Len(eval.out) = MaxAttempts
    /\ eval.arg.endpoint.some
    /\ \E k \in DOMAIN eval.arg.endpoint.val.id : eval.arg.endpoint.val.id[k] = ":"


(***************************************************************************)
(* Part X: the dispatcher with adapters that answer what they were sent    *)
(* (onebot_pylon.rs run, accept_connection)                                *)
(***************************************************************************)
\* The writer task writes the next request and the adapter answers it with
\* a Response carrying the request's echo
RemoteAnswer(c) ==
    /\ conns[c].reader = "running"
    /\ conns[c].wq # <<>>
    /\ conns' = [conns EXCEPT ![c].wq = recv(@).rest,
                              ![c].sent = Append(@, recv(conns[c].wq).item),
                              ![c].inbox = Append(@, [kind |-> "response",
                                                      echo |-> recv(conns[c].wq).item,
                                                      status |-> "ok"])]
    /\ UNCHANGED <<bearer, COUNTER, calls, api_chan, disp, endpoints_sender,
                   response_pending, event_chan, frames_sent, last_hs>>
    /\ UNCHANGED <<bridgeVars, rateVars, extVars>>

NextDispatch ==
    \/ \E ep \in ApiEndpoints : BuildRequest(ep, "send_msg")
    \/ \E k \in 1..Len(calls) : CallApi(k)
    \/ \E k \in 1..Len(calls) : CallTimeout(k)
    \/ DispatchRecv
    \/ DispatchResume
    \/ \E req \in ApiHandshakes : Accept(req)
    \/ \E c \in 1..Len(conns) : Register(c)
    \/ \E c \in 1..Len(conns) : WriterStep(c)
    \/ \E c \in 1..Len(conns) : RemoteAnswer(c)
    \/ \E c \in 1..Len(conns) : ReaderStep(c)
    \/ \E c \in 1..Len(conns) : ReadError(c)
    \/ \E c \in 1..Len(conns) : ReaderTeardown(c)

SpecDispatch == InitApi /\ [][NextDispatch]_vars

\* C23: a request's echo is in the pending table before the request enters
\* a writer channel, so the reader that handles the answer to a written
\* request finds the entry.
C23_InsertBeforeEnqueue ==
    [][\A c \in 1..Len(conns) :
          /\ Len(conns'[c].wq) > Len(conns[c].wq) =>
                 conns'[c].wq[Len(conns'[c].wq)] \in DOMAIN response_pending
          /\ (/\ conns[c].reader = "running" /\ conns'[c].reader = "running"
              /\ conns[c].inbox # <<>> /\ conns'[c].inbox = Tail(conns[c].inbox)
              /\ Head(conns[c].inbox).kind = "response") =>
                 Head(conns[c].inbox).echo \in DOMAIN response_pending]_vars

\* a waiter has been handed the answer to its written request
C23_Witness ==
    \E k \in 1..Len(calls) :
        /\ calls[k].st = "ok"
        /\ calls[k].res.kind = "response"
        /\ calls[k].res.echo = calls[k].echo

\* C24: when the dispatcher finds no sender for the endpoint, or the send on
\* the writer channel fails, the waiter is no longer waiting (it has the
\* error, or its own timeout error) and from then on the pending table holds
\* no entry under the request's echo.
C24_UndispatchedLeavesNoEntry ==
    /\ [](\A k \in 1..Len(calls) :
             calls[k].res.kind \in {"not_found", "send_failed"} =>
                 calls[k].echo \notin DOMAIN response_pending)
    /\ [][\A k \in 1..Len(calls) :
             (/\ api_chan # <<>> /\ Head(api_chan) = k /\ api_chan' = Tail(api_chan)
              /\ calls[k].endpoint \notin DOMAIN endpoints_sender) =>
                 (/\ calls'[k].st \in {"err", "timeout"}
                  /\ calls'[k].echo \notin DOMAIN response_pending')]_vars

\* a waiter holds the client-not-found error of a request sent after its
\* endpoint's reader had removed the endpoint from the routing table
C24_Witness ==
    \E k \in 1..Len(calls), c \in 1..Len(conns) :
        /\ calls[k].res.kind = "not_found"
        /\ conns[c].endpoint = calls[k].endpoint
        /\ conns[c].reader = "closed"


(***************************************************************************)
(* Part X: a read error while another adapter has stopped reading          *)
(***************************************************************************)
\* two requests for the second endpoint and one for the first, already built
InitDisconnect ==
    /\ bearer = BearerOf(ApiToken)
    /\ COUNTER = MaxCalls + 2
    /\ calls = [k \in 1..(MaxCalls + 1) |->
                   [endpoint |-> [platform |-> "QQ",
                                  id |-> IF k = 1 THEN "10001" ELSE "10002"],
                    action |-> "send_msg", echo |-> ToString(k),
                    st |-> "built", res |-> NoRes]]
    /\ api_chan = <<>>
    /\ disp = 0
    /\ endpoints_sender = EmptyMap
    /\ response_pending = EmptyMap
    /\ conns = <<>>
    /\ event_chan = <<>>
    /\ frames_sent = 0
    /\ last_hs = [req |-> [auth |-> HAbsent, self_id |-> HAbsent, ua |-> HAbsent],
                  status |-> 0]
    /\ InitBridgeVars
    /\ InitRateVars
    /\ InitExtVars
    /\ eval = NoEval

\* the reader of an endpoint's connection has terminated on a read error and
\* no other connection of that endpoint exists
Disconnected(ep) ==
    /\ \E c \in 1..Len(conns) : conns[c].endpoint = ep
    /\ \A c \in 1..Len(conns) : conns[c].endpoint = ep => conns[c].reader = "closed"

\* call_api for the first endpoint only once it is disconnected
CallAfterDisconnect(k) ==
    /\ k = 1 => Disconnected(calls[k].endpoint)
    /\ CallApi(k)

\* API_TIMOUT elapses only while the dispatcher is blocked on a full channel
StallTimeout(k) ==
    /\ disp # 0
    /\ calls[disp].endpoint \in DOMAIN endpoints_sender
    /\ SendResult(endpoints_sender[calls[disp].endpoint]) = "full"
    /\ CallTimeout(k)

\* every adapter connects once: a disconnected endpoint stays disconnected
AcceptOnce(req) ==
    /\ \A c \in 1..Len(conns) :
          conns[c].endpoint # HandshakeCallback(req, bearer).endpoint
    /\ Accept(req)

NextDisconnect ==
    \/ \E k \in 1..Len(calls) : CallAfterDisconnect(k)
    \/ \E k \in 1..Len(calls) : StallTimeout(k)
    \/ DispatchRecv
    \/ DispatchResume
    \/ \E req \in ApiHandshakes : AcceptOnce(req)
    \/ \E c \in 1..Len(conns) : Register(c)
    \/ \E c \in 1..Len(conns) : RemoteAnswer(c)
    \/ \E c \in 1..Len(conns) : ReaderStep(c)
    \/ \E c \in 1..Len(conns) : ReadError(c)
    \/ \E c \in 1..Len(conns) : ReaderTeardown(c)

SpecDisconnect == InitDisconnect /\ [][NextDisconnect]_vars

\* C26: a reader that hit a read error has put exactly one "disconnect"
\* event of its endpoint on the event channel; once it has terminated the
\* endpoint is out of the routing table; a request for the endpoint issued
\* after that resolves with the client-not-found error.
C26_DisconnectThenNotFound ==
    /\ \A ep \in ApiEndpoints :
          Cardinality({i \in 1..Len(event_chan) :
                          event_chan[i] = [endpoint |-> ep, kind |-> "disconnect"]})
              = Cardinality({c \in 1..Len(conns) :
                                /\ conns[c].endpoint = ep
                                /\ conns[c].reader \in {"closing", "closed"}})
    /\ \A ep \in ApiEndpoints : Disconnected(ep) => ep \notin DOMAIN endpoints_sender
    /\ calls[1].st \notin {"built", "waiting"} => calls[1].res.kind = "not_found"


(***************************************************************************)
(* Claims about with_id_lock!                                              *)
(***************************************************************************)
\* task t is inside the block guarded by the Mutex of its Telegram chat
HoldsTg(t) ==
    /\ tasks[t].ev.post_type = "telegram"
    /\ \/ tasks[t].pc \in {"resolved", "awaiting"}
       \/ tasks[t].pc = "locked" /\ Acquired(tg_id_lock, tasks[t].ev.kind, t)

\* task t is inside the block guarded by the Mutex of its remote chat key
HoldsRemote(t) ==
    IF tasks[t].ev.post_type = "telegram"
    THEN \/ tasks[t].pc = "resolved" /\ Acquired(remote_id_lock, tasks[t].key, t)
         \/ tasks[t].pc = "awaiting"
    ELSE \/ tasks[t].pc = "sending"
         \/ tasks[t].pc = "locked" /\ Acquired(remote_id_lock, tasks[t].key, t)

\* C25: at most one task is inside the block of a remote chat key, at most
\* one inside the block of a Telegram chat id, and every task that has called
\* lock() for a key and has not left its block is in the queue of the one
\* Mutex stored under that key.
C25_KeyedMutualExclusion ==
    /\ \A t, u \in 1..Len(tasks) :
          (t # u /\ HoldsRemote(t) /\ HoldsRemote(u)) => tasks[t].key # tasks[u].key
    /\ \A t, u \in 1..Len(tasks) :
          (t # u /\ HoldsTg(t) /\ HoldsTg(u)) => tasks[t].ev.kind # tasks[u].ev.kind
    /\ \A t \in 1..Len(tasks) :
          /\ (/\ tasks[t].ev.post_type = "telegram"
              /\ tasks[t].pc \in {"locked", "resolved", "awaiting"})
                 => InQueue(LockQueue(tg_id_lock, tasks[t].ev.kind), t)
          /\ (tasks[t].ev.post_type # "telegram" /\ tasks[t].pc \in {"locked", "sending"})
                 => InQueue(LockQueue(remote_id_lock, tasks[t].key), t)

\* two events of one remote chat: one task is inside the block while the
\* other waits in the queue of the same Mutex
C25_Witness ==
    \E t, u \in 1..Len(tasks) :
        /\ t # u
        /\ tasks[t].key = tasks[u].key
        /\ tasks[t].pc = "sending"
        /\ tasks[u].pc = "locked"
        /\ LockQueue(remote_id_lock, tasks[t].key) = <<t, u>>


\* C27: every step of the event pipeline that delivers a message or an album
\* to a Telegram chat has waited for the chat's key to be ready and takes a
\* cell of the chat's rate limiter: relayed messages, connect and disconnect
\* notices and recall markers alike.
C27_TokenBeforeEverySend ==
    [][\A chat \in RateChats :
          DeliveredIn(delivered', chat, 0, MaxTick)
              > DeliveredIn(delivered, chat, 0, MaxTick) =>
                 (/\ KeyReady(limiter, chat, now)
                  /\ chat \in DOMAIN limiter'
                  /\ limiter'[chat] = NextTat(limiter, chat, now))]_vars


(***************************************************************************)
(* Part XI: forum topics of an archive (bridge.rs get_or_create_topic)     *)
(***************************************************************************)
\* messages of one group chat and of one private chat
TopicEvents == {GroupMessage("m1", 1), GroupMessage("m2", 1), PrivateMessage("m3", 1)}

\* the archive of the endpoint is created once and never deleted
NextTopic ==
    \/ CreateArchive
    \/ \E e \in TopicEvents : Pump(e)
    \/ \E t \in 1..Len(tasks) : TaskLock(t)
    \/ \E t \in 1..Len(tasks), api_ok, tg_ok, rec_ok \in BOOLEAN :
           ProcessOnebotMessage(t, api_ok, tg_ok, rec_ok)
    \/ \E t \in 1..Len(tasks), tg_ok \in BOOLEAN : SendTelegram(t, tg_ok)

SpecTopic == InitBridge /\ [][NextTopic]_vars

\* the forum topics of the archive chat that the tasks of one remote chat key
\* were given by Telegram or by the Topic table
TopicsOf(key) ==
    {tasks[t].target.reply_to :
        t \in {u \in 1..Len(tasks) : /\ tasks[u].key = key
                                     /\ tasks[u].target.chat = ArchiveChat
                                     /\ tasks[u].target.reply_to # 0}}

\* C28: while the archive exists, the events of one remote chat create at
\* most one forum topic and at most one Topic row: every event after the
\* first works with the same tg_topic_id, also when the insert of the Topic
\* row failed after Telegram had created the topic.
C28_OneTopicPerRemoteChat ==
    /\ \A t \in 1..Len(tasks) : Cardinality(TopicsOf(tasks[t].key)) <= 1
    /\ \A x, y \in topic : x.remote_chat_id = y.remote_chat_id => x = y


(***************************************************************************)
(* Part XII: media of Telegram messages (from_telegram.rs convert_and_send) *)
(***************************************************************************)
\* the admin's messages in the linked chat: text, a photo with and without
\* caption, a GIF and a sticker whose transcode succeeds or fails, media the
\* bridge does not convert, a photo whose download fails
MediaUpdates ==
    {TextOnly, Media("photo", TRUE, TRUE, FALSE), Media("photo", TRUE, TRUE, TRUE),
     Media("photo", FALSE, TRUE, TRUE), Media("other", TRUE, TRUE, FALSE)}
    \cup {Media(k, TRUE, tr, tx) : k \in {"gif", "sticker"}, tr \in BOOLEAN, tx \in BOOLEAN}

NextMedia ==
    \/ UpdateRemoteChat(ChatKey("Group", "g1"))
    \/ \E rc \in 1..Len(remote_chat) : CreateLink(rc)
    \/ \E md \in MediaUpdates : TgNewMedia(LinkChat, AdminId, md)
    \/ \E t \in 1..Len(tasks) : TgTaskLock(t)
    \/ \E t \in 1..Len(tasks), tg_ok \in BOOLEAN : ProcessMessage(t, tg_ok)
    \/ \E t \in 1..Len(tasks), api_ok, tg_ok \in BOOLEAN : ConvertAndSend(t, api_ok, tg_ok)
    \/ \E t \in 1..Len(tasks), in_time, tg_ok \in BOOLEAN :
           SendMsgReturns(t, in_time, tg_ok)

SpecMedia == InitBridge /\ [][NextMedia]_vars

\* task t is a Telegram message that convert_and_send has finished with res
Converted(t, res) ==
    /\ tasks[t].ev.post_type = "telegram"
    /\ tasks[t].pc = "done"
    /\ tasks[t].res = res

\* the replies the bot wrote under the message of task t
RepliesTo(t) ==
    {i \in 1..Len(tg_log) : tg_log[i].kind = "warning" /\ tg_log[i].task = t}

C30_FailedTranscodeStillRelayed ==
    [][\A t \in 1..Len(tasks) :
          (/\ tasks[t].ev.media.kind \in {"gif", "sticker"}
           /\ tasks[t].ev.media.downloads
           /\ ~tasks[t].ev.media.transcodes) =>
              /\ (tasks[t].pc = "resolved" /\ tasks'[t].pc # "resolved")
                    => (tasks'[t].pc = "awaiting" \/ tasks'[t].res = "failed")
              /\ (tasks[t].pc = "awaiting" /\ tasks'[t].res = "sent") =>
                    /\ Len(remote_log') = Len(remote_log) + 1
                    /\ \E i \in 1..Len(remote_log'[Len(remote_log')].segments) :
                          remote_log'[Len(remote_log')].segments[i]
                              = [type |-> "image", data |-> "original"]]_vars

(***************************************************************************)
(* Part XIII: the order of requests on a WebSocket (onebot_pylon.rs)       *)
(***************************************************************************)
WideCap == 2       \* capacity of a writer channel that holds several requests

\* callers that send their requests one after the other to one endpoint,
\* whose connections come and go
NextOrder ==
    \/ \E k \in 1..Len(calls) : CallInOrder(k)
    \/ DispatchRecv
    \/ DispatchResume
    \/ AcceptConnection([auth |-> HText(<<"Bearer", "secret">>),
                         self_id |-> HText(<<"10001">>),
                         ua |-> HText(<<"LLOneBot", "/4.1">>)], WideCap)
    \/ \E c \in 1..Len(conns) : Register(c)
    \/ \E c \in 1..Len(conns) : WriterStep(c)
    \/ \E c \in 1..Len(conns) : ReadError(c)
    \/ \E c \in 1..Len(conns) : ReaderTeardown(c)

SpecOrder == InitStall /\ [][NextOrder]_vars

\* the call whose request carries the echo
CallOf(echo) == CHOOSE k \in 1..Len(calls) : calls[k].echo = echo

\* C31: the dispatcher takes the requests from the API channel in the order
\* the callers put them there (here the order of the calls), and the
\* requests written to the WebSocket of a connection are written in that
\* order.
C31_WrittenInDequeueOrder ==
    /\ [](\A c \in 1..Len(conns) :
             \A i, j \in 1..Len(conns[c].sent) :
                 i < j => CallOf(conns[c].sent[i]) < CallOf(conns[c].sent[j]))
    /\ [][(api_chan # <<>> /\ api_chan' = Tail(api_chan)) =>
             \A j \in 1..(Head(api_chan) - 1) :
                 /\ calls[j].st # "built"
                 /\ \A i \in 1..Len(api_chan) : api_chan[i] # j]_vars

\* two requests have been written to a connection while two more wait in
\* its writer channel
C31_Witness ==
    \E c \in 1..Len(conns) :
        /\ Len(conns[c].sent) >= 2
        /\ Len(conns[c].wq) = WideCap

(***************************************************************************)
(* Claims about reconnecting endpoints                                     *)
(***************************************************************************)
\* C32: when the reader of a connection leaves after an error, every
\* routing-table entry that holds the writer channel of another connection
\* (a newer connection of the same endpoint among them) is still there.
C32_TeardownKeepsNewerConnection ==
    [][\A c \in 1..Len(conns) :
          (conns[c].reader = "closing" /\ conns'[c].reader = "closed") =>
              \A ep \in DOMAIN endpoints_sender :
                  endpoints_sender[ep] # c =>
                      /\ ep \in DOMAIN endpoints_sender'
                      /\ endpoints_sender'[ep] = endpoints_sender[ep]]_vars

\* C33: a waiter that was resolved with a response got it from a connection
\* of the endpoint its request was addressed to.
C33_ResponseFromOwnEndpoint ==
    \A k \in 1..Len(calls) :
        (calls[k].st = "ok" /\ calls[k].res.kind = "response") =>
            conns[calls[k].res.conn].endpoint = calls[k].endpoint

(***************************************************************************)
(* Claims about a stalled writer channel                                   *)
(***************************************************************************)
\* the dispatcher is inside sender.send on the full writer channel of
\* connection c
BlockedOn(c) ==
    /\ disp # 0
    /\ calls[disp].endpoint \in DOMAIN endpoints_sender
    /\ endpoints_sender[calls[disp].endpoint] = c
    /\ SendResult(c) = "full"

\* C34: while the writer channel of one connection is full and the
\* dispatcher has a request for it, the dispatcher can still take the next
\* request when it is addressed to another endpoint, an accepted connection
\* can still register and a failed connection can still deregister.
C34_StallIsolated ==
    \A c \in 1..Len(conns) :
        BlockedOn(c) =>
            /\ (api_chan # <<>> /\ calls[Head(api_chan)].endpoint # conns[c].endpoint)
                   => ENABLED DispatchRecv
            /\ \A d \in 1..Len(conns) :
                   /\ conns[d].reader = "registering" => ENABLED Register(d)
                   /\ conns[d].reader = "closing" => ENABLED ReaderTeardown(d)

(***************************************************************************)
(* Claims about the end of a connection                                    *)
(***************************************************************************)
\* C37: once the reader task of a connection has ended, the routing table
\* no longer holds the sender of that connection and a disconnect event of
\* its endpoint has been put on the event channel.
C37_ReaderEndDeregisters ==
    \A c \in 1..Len(conns) :
        conns[c].reader = "closed" =>
            /\ \A ep \in DOMAIN endpoints_sender : endpoints_sender[ep] # c
            /\ \E i \in 1..Len(event_chan) :
                   /\ event_chan[i].kind = "disconnect"
                   /\ event_chan[i].endpoint = conns[c].endpoint

(***************************************************************************)
(* Part XIV: the adapter's report of a message the bridge sent             *)
(***************************************************************************)
\* the message_sent event the adapter emits for the message it delivered for
\* task t: the bot is the user, the chat is the one the request named
SentEventOf(t) ==
    IF tasks[t].key.chat_type = "Group"
    THEN OnebotEv("message_sent", "group", BotEndpoint.id, "",
                  tasks[t].key.target_id, tasks[t].message_id, 1)
    ELSE OnebotEv("message_sent", "private", BotEndpoint.id,
                  tasks[t].key.target_id, "", tasks[t].message_id, 1)

\* the adapter reports a delivered message once; the report can reach the
\* event pump before or after the response to send_msg
MessageSent(t) ==
    /\ tasks[t].message_id # ""
    /\ \A u \in 1..Len(tasks) : tasks[u].ev # SentEventOf(t)
    /\ Pump(SentEventOf(t))

NextSent ==
    \/ \E key \in KnownChats : UpdateRemoteChat(key)
    \/ \E rc \in 1..Len(remote_chat) : CreateLink(rc)
    \/ TgNewMessage(LinkChat, AdminId, NoHeader)
    \/ \E t \in 1..Len(tasks) : TgTaskLock(t)
    \/ \E t \in 1..Len(tasks), tg_ok \in BOOLEAN : ProcessMessage(t, tg_ok)
    \/ \E t \in 1..Len(tasks), api_ok, tg_ok \in BOOLEAN : ConvertAndSend(t, api_ok, tg_ok)
    \/ \E t \in 1..Len(tasks), in_time, tg_ok \in BOOLEAN :
           SendMsgReturns(t, in_time, tg_ok)
    \/ \E t \in 1..Len(tasks) : MessageSent(t)
    \/ \E t \in 1..Len(tasks) : TaskLock(t)
    \/ \E t \in 1..Len(tasks), tg_ok \in BOOLEAN : ProcessOnebotMessage(t, TRUE, tg_ok, TRUE)
    \/ \E t \in 1..Len(tasks), tg_ok \in BOOLEAN : SendTelegram(t, tg_ok)

SpecSent == InitBridge /\ [][NextSent]_vars

\* the Telegram messages that relay the remote message task t delivered
RelayedBack(t) ==
    {i \in 1..Len(tg_log) : /\ tg_log[i].kind = "relay"
                            /\ tg_log[i].remote_chat_id = tasks[t].rc
                            /\ tg_log[i].remote_msg_id = tasks[t].message_id}

\* C35: a message relayed from Telegram to a remote chat is never relayed
\* back into Telegram when the adapter reports it as a message_sent event
C35_NotRelayedBack ==
    \A t \in 1..Len(tasks) :
        (tasks[t].ev.post_type = "telegram" /\ tasks[t].message_id # "")
            => RelayedBack(t) = {}

(***************************************************************************)
(* Part XV: the two lock maps together                                     *)
(***************************************************************************)
\* the keys of a lock map whose Mutex task t has called lock() on and not
\* released, and those among them it is still waiting for
Requested(locks, t) == {id \in DOMAIN locks : InQueue(locks[id], t)}
Pending(locks, t) == {id \in Requested(locks, t) : ~Acquired(locks, id, t)}

\* the runtime polls every spawned task that can make progress, and every
\* external call of a handler returns
FairLocks ==
    /\ SpecOutbound
    /\ \A t \in 1..MaxTasks :
          /\ WF_vars(t <= Len(tasks) /\ TaskLock(t))
          /\ WF_vars(t <= Len(tasks) /\ TgTaskLock(t))
          /\ WF_vars(t <= Len(tasks)
                       /\ \E tg_ok \in BOOLEAN : ProcessOnebotMessage(t, TRUE, tg_ok, TRUE))
          /\ WF_vars(t <= Len(tasks) /\ \E tg_ok \in BOOLEAN : SendTelegram(t, tg_ok))
          /\ WF_vars(t <= Len(tasks) /\ \E tg_ok \in BOOLEAN : ProcessMessage(t, tg_ok))
          /\ WF_vars(t <= Len(tasks)
                       /\ \E api_ok, tg_ok \in BOOLEAN : ConvertAndSend(t, api_ok, tg_ok))
          /\ WF_vars(t <= Len(tasks)
                       /\ \E in_time, tg_ok \in BOOLEAN : SendMsgReturns(t, in_time, tg_ok))

\* C36: the keyed locks never deadlock: a task holding a remote-chat lock
\* never waits for a Telegram-chat lock, no task has two locks of the same
\* map, a task in both maps took the Telegram-chat lock first, and every
\* lock request is eventually granted.
C36_LocksNeverDeadlock ==
    /\ [](\A t \in 1..Len(tasks) :
            /\ Cardinality(Requested(remote_id_lock, t)) <= 1
            /\ Cardinality(Requested(tg_id_lock, t)) <= 1
            /\ (Requested(remote_id_lock, t) # {})
                  => (Pending(tg_id_lock, t) = {}
                      /\ (tasks[t].ev.post_type = "telegram"
                            => Requested(tg_id_lock, t) # {})))
    /\ \A t \in 1..MaxTasks :
          (Pending(remote_id_lock, t) # {} \/ Pending(tg_id_lock, t) # {})
              ~> (Pending(remote_id_lock, t) = {} /\ Pending(tg_id_lock, t) = {})

\* a Telegram task holds its chat's lock and waits for the remote chat's
\* lock, which an event's task holds
C36_Witness ==
    \E t, u \in 1..Len(tasks) :
        /\ tasks[t].ev.post_type = "telegram"
        /\ Requested(tg_id_lock, t) # {}
        /\ Pending(tg_id_lock, t) = {}
        /\ Pending(remote_id_lock, t) # {}
        /\ tasks[u].ev.post_type # "telegram"
        /\ \E id \in Pending(remote_id_lock, t) : Acquired(remote_id_lock, id, u)

(***************************************************************************)
(* Part XVI: an archive deleted while a topic is being created             *)
(***************************************************************************)
\* process_onebot_message reaches the CreateForumTopic request of
\* get_or_create_topic: the event is new, its remote chat has no link, the
\* endpoint has an archive and the remote chat has no topic yet
TopicNeeded(t, api_ok) ==
    LET e == tasks[t].ev
        g == get_remote_chat(remote_chat, remote_chat_cache, remote_chat_key(e), api_ok)
    IN  /\ e.segments # 0
        /\ g.ok
        /\ find_message_by_remote(message, g.id, e.message_id) = {}
        /\ find_link_by_remote(link, g.id) = {}
        /\ find_archive_by_endpoint(archive, BotEndpoint) # {}
        /\ {tp \in topic : tp.remote_chat_id = g.id} = {}

\* process_onebot_message up to the await of CreateForumTopic: the handler
\* holds the archive::Model it read (target.chat is its tg_chat_id)
TopicRequest(t, api_ok) ==
    /\ tasks[t].pc = "locked"
    /\ tasks[t].ev.post_type \in {"message", "message_sent"}
    /\ Acquired(remote_id_lock, tasks[t].key, t)
    /\ TopicNeeded(t, api_ok)
    /\ LET g == get_remote_chat(remote_chat, remote_chat_cache,
                                remote_chat_key(tasks[t].ev), api_ok)
           a == CHOOSE x \in find_archive_by_endpoint(archive, BotEndpoint) : TRUE
       IN  /\ remote_chat' = g.rows
           /\ remote_chat_cache' = g.cache
           /\ tasks' = [tasks EXCEPT ![t].pc = "creating", ![t].rc = g.id,
                                     ![t].target = [chat |-> a.tg_chat_id,
                                                    reply_to |-> 0]]
    /\ UNCHANGED <<remote_id_lock, tg_id_lock, message, link, archive, topic, tg_log,
                   tg_next, remote_log, uuid_next>>
    /\ UNCHANGED <<apiVars, rateVars, extVars>>

\* get_or_create_topic from the answer of CreateForumTopic on: create_topic
\* with the id of the archive read before the await, then the rest of
\* process_onebot_message up to the send
TopicCreated(t, tg_ok, rec_ok) ==
    /\ tasks[t].pc = "creating"
    /\ LET a == [endpoint |-> BotEndpoint, tg_chat_id |-> tasks[t].target.chat]
       IN  IF ~tg_ok
           THEN /\ tasks' = Finish(tasks, t, "err")
                /\ remote_id_lock' = unlock(remote_id_lock, tasks[t].key, t)
                /\ UNCHANGED <<topic, tg_next>>
           ELSE /\ tg_next' = tg_next + 1
                /\ topic' = IF rec_ok
                            THEN create_topic(topic, a, tg_next, tasks[t].rc)
                            ELSE topic
                /\ IF ~rec_ok \/ (tasks[t].ev.at /\ tasks[t].ev.group_id = "")
                   THEN /\ tasks' = [Finish(tasks, t, IF rec_ok THEN "panicked" ELSE "err")
                                       EXCEPT ![t].target.reply_to = tg_next]
                        /\ remote_id_lock' = unlock(remote_id_lock, tasks[t].key, t)
                   ELSE /\ tasks' = [tasks EXCEPT ![t].pc = "sending",
                                                  ![t].target.reply_to = tg_next]
                        /\ UNCHANGED remote_id_lock
    /\ UNCHANGED <<tg_id_lock, remote_chat, remote_chat_cache, message, link, archive,
                   tg_log, remote_log, uuid_next>>
    /\ UNCHANGED <<apiVars, rateVars, extVars>>

\* Bridge::delete_archive is taken as one step (DeleteArchive): the states
\* between its two statements are those in which a deletion is in progress
NextArchive ==
    \/ CreateArchive
    \/ \E a \in archive : DeleteArchive(a)
    \/ \E e \in {PrivateMessage("m1", 1), GroupMessage("m2", 1)} : Pump(e)
    \/ \E t \in 1..Len(tasks) : TaskLock(t)
    \/ \E t \in 1..Len(tasks), api_ok, tg_ok \in BOOLEAN :
           ~TopicNeeded(t, api_ok) /\ ProcessOnebotMessage(t, api_ok, tg_ok, TRUE)
    \/ \E t \in 1..Len(tasks), api_ok \in BOOLEAN : TopicRequest(t, api_ok)
    \/ \E t \in 1..Len(tasks), tg_ok, rec_ok \in BOOLEAN : TopicCreated(t, tg_ok, rec_ok)
    \/ \E t \in 1..Len(tasks), tg_ok \in BOOLEAN : SendTelegram(t, tg_ok)

SpecArchive == InitBridge /\ [][NextArchive]_vars

\* C38: each Topic row refers to an existing Archive row, also when an
\* archive is deleted while an event handler creates a topic under it
C38_TopicRefersToArchive ==
    \A tp \in topic : tp.archive \in archive

(***************************************************************************)
(* Part XVII: the tokens of the rendered buttons                           *)
(***************************************************************************)
\* C39: two rendered buttons share a token only if they are the same button
\* of the same rendering, so that pressing a button of one inline UI never
\* invalidates a button of another UI that is still displayed.  Stated for
\* the menus as the commands rendered them, before any button is pressed.
C39_TokenOfOneRendering ==
    (\A t \in 1..Len(tasks) : tasks[t].ev.update # "CallbackQuery") =>
        \A i, j \in 1..Len(tg_log) :
            (i # j /\ tg_log[i].kind = "menu" /\ tg_log[j].kind = "menu")
                => tg_log[i].buttons \cap tg_log[j].buttons = {}

(***************************************************************************)
(* Part XVIII: the documents sent before a flush                           *)
(***************************************************************************)
\* C40: once a flush is acknowledged, every document index_message accepted
\* before the flush request was issued is part of the committed index: none
\* of them is still in the document channel, which the writer leaves behind.
C40_FlushCoversAcceptedDocs ==
    \A i \in 1..Len(commit_calls) :
        commit_calls[i].acked => commit_calls[i].queued = 0

====
